---------------------------- MODULE Spec2Model ----------------------------
(***************************************************************************)
(* Model of the normalisation and classification pipeline of Dashclim.py:  *)
(* the duration parser (parse_delta_to_hours), the monthly status          *)
(* classifier (normalize_monthly_df / derive_status) and the column        *)
(* resolver of the yearly status sheet.                                    *)
(*                                                                         *)
(* Text is modelled as a sequence of one-character strings, so that        *)
(* strip, replace, startswith and the regular-expression searches of the   *)
(* source are computed character by character.  A duration is held as an   *)
(* exact number of seconds (3600 x the hour count the source returns).     *)
(***************************************************************************)
EXTENDS Integers, Sequences, FiniteSets, TLC

VARIABLES
    text,             \* parse_delta_to_hours: the cell handed to the parser
    parsed,           \* parse_delta_to_hours: the value it returned
    ppc,              \* "input" before the call, "done" after it, "idle"
    df_monthly,       \* the monthly table as loaded (columns, rows)
    df_monthly_norm,  \* the result of normalize_monthly_df
    mpc,              \* "reading" the sheet, "normalized", "idle"
    df_status_columns,\* header row of the yearly status sheet, left to right
    lat_col,          \* resolved latitude header (NoCol when none)
    lon_col,          \* resolved longitude header (NoCol when none)
    ypc,              \* "loaded", "resolved", "idle"
    month_headers,    \* non-coordinate headers of the status sheet
    bulan_cols,       \* month columns resolved on the Monitoring Tahunan page
    month_cols,       \* month columns resolved on the Performa Stasiun page
    cpc,              \* "loaded", "monitoring", "performa", "idle"
    station_cells,    \* month cells of one station row of the status sheet
    df_status_row,    \* that row after the Monitoring Tahunan computation
    df_perf_row,      \* that row after the Performa Stasiun computation
    spc,              \* "loading", "monitoring", "performa", "idle"
    tier_row,         \* a station row of df_status with its counts
    marker_color,     \* colour of the station's marker on the map
    tpc,              \* "counted", "drawn", "idle"
    status_sheet,     \* month columns and station rows of the status sheet
    df_bulan,         \* the per-month aggregate of Monitoring Tahunan
    bpc,              \* "loading", "aggregated", "idle"
    page_sheet,       \* headers of df_status and whether it has rows
    page_result,      \* message shown and blocks computed by a yearly page
    gpc,              \* "loaded", "monitoring", "performa", "idle"
    map_rows,         \* records handed to a map loop, with their coordinates
    map_markers,      \* markers the loop created, in order
    kpc,              \* "loading", "monthly", "yearly", "idle"
    load_env,         \* the spreadsheet as load_all_data meets it
    load_out,         \* what load_all_data returned or raised
    lpc,              \* "called", "returned", "idle"
    clock,            \* seconds since the application started
    url_cache,        \* cache entry of load_sheet_csv_url(monthly_url)
    data_cache,       \* cache entry of load_all_data
    served,           \* what the last script run got from load_all_data
    qpc,              \* "running", "idle"
    display_src,      \* rows of the monthly sheet behind the display table
    df_display,       \* the display table
    dpc,              \* "loading", "shown", "idle"
    df_perf,          \* station rows of Performa Stasiun
    pager_view,       \* the page of charts shown
    rpc               \* "loading", "shown", "idle"

vars == <<text, parsed, ppc, df_monthly, df_monthly_norm, mpc,
          df_status_columns, lat_col, lon_col, ypc,
          month_headers, bulan_cols, month_cols, cpc,
          station_cells, df_status_row, df_perf_row, spc,
          tier_row, marker_color, tpc, status_sheet, df_bulan, bpc,
          page_sheet, page_result, gpc, map_rows, map_markers, kpc,
          load_env, load_out, lpc,
          clock, url_cache, data_cache, served, qpc,
          display_src, df_display, dpc, df_perf, pager_view, rpc>>

parserVars  == <<text, parsed, ppc>>
monthlyVars == <<df_monthly, df_monthly_norm, mpc>>
yearlyVars  == <<df_status_columns, lat_col, lon_col, ypc>>
monthColVars == <<month_headers, bulan_cols, month_cols, cpc>>
cellVars     == <<station_cells, df_status_row, df_perf_row, spc>>
tierVars     == <<tier_row, marker_color, tpc>>
periodVars   == <<status_sheet, df_bulan, bpc>>
pageVars     == <<page_sheet, page_result, gpc>>
mapVars      == <<map_rows, map_markers, kpc>>
loadVars     == <<load_env, load_out, lpc>>
cacheVars    == <<clock, url_cache, data_cache, served, qpc>>
displayVars  == <<display_src, df_display, dpc>>
pagerVars    == <<df_perf, pager_view, rpc>>

\* the state of the components modelled first
pipelineVars == <<parserVars, monthlyVars, yearlyVars, monthColVars, cellVars,
                  tierVars, periodVars>>

---------------------------------------------------------------------------
(* Bounds *)

MaxTokens == 3      \* tokens concatenated into a generated duration text
MaxRows   == 2      \* rows of a generated monthly table
MaxCols   == 3      \* headers of a generated status sheet

---------------------------------------------------------------------------
(* Characters and Python string primitives *)

UpperAlpha == <<"A","B","C","D","E","F","G","H","I","J","K","L","M",
                "N","O","P","Q","R","S","T","U","V","W","X","Y","Z">>
LowerAlpha == <<"a","b","c","d","e","f","g","h","i","j","k","l","m",
                "n","o","p","q","r","s","t","u","v","w","x","y","z">>

Digits == <<"0","1","2","3","4","5","6","7","8","9">>

IsSpace(c) == c \in {" ", "\t"}

IsDigit(c) == \E i \in 1..10 : Digits[i] = c

DigitVal(c) == (CHOOSE i \in 1..10 : Digits[i] = c) - 1

LowerChar(c) ==
    IF \E i \in 1..26 : UpperAlpha[i] = c
    THEN LowerAlpha[CHOOSE i \in 1..26 : UpperAlpha[i] = c]
    ELSE c

UpperChar(c) ==
    IF \E i \in 1..26 : LowerAlpha[i] = c
    THEN UpperAlpha[CHOOSE i \in 1..26 : LowerAlpha[i] = c]
    ELSE c

\* str.lower() / str.upper()
Lower(s) == [i \in 1..Len(s) |-> LowerChar(s[i])]
Upper(s) == [i \in 1..Len(s) |-> UpperChar(s[i])]

RECURSIVE LStrip(_)
LStrip(s) == IF s # <<>> /\ IsSpace(s[1]) THEN LStrip(Tail(s)) ELSE s

RECURSIVE RStrip(_)
RStrip(s) ==
    IF s # <<>> /\ IsSpace(s[Len(s)]) THEN RStrip(SubSeq(s, 1, Len(s) - 1)) ELSE s

\* str.strip()
Strip(s) == RStrip(LStrip(s))

\* str.startswith(p)
StartsWith(s, p) == Len(s) >= Len(p) /\ SubSeq(s, 1, Len(p)) = p

\* p in s (substring test)
Contains(s, p) ==
    \E i \in 1..(Len(s) - Len(p) + 1) : SubSeq(s, i, i + Len(p) - 1) = p

\* str.replace(old, new): left to right, non-overlapping occurrences
RECURSIVE Replace(_, _, _)
Replace(s, old, new) ==
    IF Len(s) < Len(old) THEN s
    ELSE IF SubSeq(s, 1, Len(old)) = old
         THEN new \o Replace(SubSeq(s, Len(old) + 1, Len(s)), old, new)
         ELSE <<s[1]>> \o Replace(Tail(s), old, new)

\* int(digits) of a non-empty string of decimal digits
RECURSIVE ToInt(_)
ToInt(d) ==
    IF d = <<>> THEN 0
    ELSE 10 * ToInt(SubSeq(d, 1, Len(d) - 1)) + DigitVal(d[Len(d)])

\* pandas missing value (None / NaN); never equal to a text
NaN == <<"<NaN>">>

\* pd.isna(v)
isna(v) == v = NaN

---------------------------------------------------------------------------
(* Regular expression  (-?\s*\d+)\s*(tok1|tok2|...)  with flags=re.I *)

RECURSIVE SkipSpaces(_, _)
SkipSpaces(s, i) ==
    IF i <= Len(s) /\ IsSpace(s[i]) THEN SkipSpaces(s, i + 1) ELSE i

RECURSIVE SkipDigits(_, _)
SkipDigits(s, i) ==
    IF i <= Len(s) /\ IsDigit(s[i]) THEN SkipDigits(s, i + 1) ELSE i

\* the token tok stands at position i of s, ignoring case
TokenAt(s, i, tok) ==
    /\ i + Len(tok) - 1 <= Len(s)
    /\ Lower(SubSeq(s, i, i + Len(tok) - 1)) = Lower(tok)

\* end (exclusive) of group 1 when the pattern matches starting at i, else 0
MatchEnd(s, i, toks) ==
    LET j == IF i <= Len(s) /\ s[i] = "-" THEN i + 1 ELSE i
        k == SkipSpaces(s, j)
        l == SkipDigits(s, k)
        m == SkipSpaces(s, l)
    IN  IF l > k /\ \E t \in toks : TokenAt(s, m, t) THEN l ELSE 0

NoMatch == <<"<None>">>

\* re.search(...).group(1): group 1 of the leftmost match, NoMatch if none
re_search_group1(s, toks) ==
    IF \E i \in 1..Len(s) : MatchEnd(s, i, toks) > 0
    THEN LET i == CHOOSE p \in 1..Len(s) :
                     /\ MatchEnd(s, p, toks) > 0
                     /\ \A q \in 1..(p - 1) : MatchEnd(s, q, toks) = 0
         IN  SubSeq(s, i, MatchEnd(s, i, toks) - 1)
    ELSE NoMatch

\* re.sub(r"\D", "", g)
re_sub_nondigits(g) == SelectSeq(g, IsDigit)

\* the  m = re.search(...); if m: try: int(re.sub(...)) except: 0  block
unit_value(s, toks) ==
    LET g == re_search_group1(s, toks)
    IN  IF g = NoMatch THEN 0
        ELSE LET d == re_sub_nondigits(g)
             IN  IF d = <<>> THEN 0 ELSE ToInt(d)

---------------------------------------------------------------------------
(* parse_delta_to_hours *)

T_hari == <<"h","a","r","i">>
T_jam  == <<"j","a","m">>
T_mnt  == <<"m","n","t">>
T_min  == <<"m","i","n">>
T_dtk  == <<"d","t","k">>
T_sec  == <<"s","e","c">>
T_s    == <<"s">>
T_hrs  == <<"h","r","s">>
T_hr   == <<"h","r">>

EnDash == "en-dash"     \* the single character U+2013
EmDash == "em-dash"     \* the single character U+2014

\* a parser result: None, or a float held as a whole number of seconds
None      == [isnull |-> TRUE,  secs |-> 0]
Hours(n)  == [isnull |-> FALSE, secs |-> n]

\* line 153 with the dash replacements left out
normalize_delta_text_keepdashes(s) ==
    Replace(Replace(s, T_hrs, T_jam), T_hr, T_hari)

\* line 153: the chain of four str.replace calls
normalize_delta_text(s) ==
    Replace(Replace(Replace(Replace(s, <<EnDash>>, <<"-">>),
                            <<EmDash>>, <<"-">>),
                    T_hrs, T_jam),
            T_hr, T_hari)

\* lines 154-158
delta_sign(s) == IF StartsWith(s, <<"-">>) THEN -1 ELSE 1

\* lines 159-184, in seconds
delta_total(s) ==
      unit_value(s, {T_hari}) * 86400
    + unit_value(s, {T_jam}) * 3600
    + unit_value(s, {T_mnt, T_min}) * 60
    + unit_value(s, {T_dtk, T_sec, T_s})

\* a parser that gives up (None) when no unit at all is found
parse_delta_to_hours_nounit_none(txt) ==
    IF isna(txt) THEN None
    ELSE LET s0 == Strip(txt)
         IN  IF s0 = <<>> THEN None
             ELSE LET s == normalize_delta_text(s0)
                  IN  IF delta_total(s) = 0 THEN None
                      ELSE Hours(delta_sign(s) * delta_total(s))

parse_delta_to_hours(txt) ==
    IF isna(txt) THEN None
    ELSE LET s0 == Strip(txt)
         IN  IF s0 = <<>> THEN None
             ELSE LET s == normalize_delta_text(s0)
                  IN  Hours(delta_sign(s) * delta_total(s))

---------------------------------------------------------------------------
(* Inputs of the duration parser *)

DeltaTokens ==
    { <<"-">>, <<"+">>, <<EnDash>>, <<" ">>, <<"1">>, <<"2">>, <<"x">>,
      T_hari, T_jam, T_mnt, T_dtk, T_s, T_hrs, T_hr, <<"J","A","M">> }

RECURSIVE TokenTexts(_)
TokenTexts(n) ==
    IF n = 0 THEN { <<>> }
    ELSE LET shorter == TokenTexts(n - 1)
         IN  shorter \cup { t \o tok : t \in shorter, tok \in DeltaTokens }

ExampleTexts ==
    { <<"2"," ","h","a","r","i"," ","3"," ","j","a","m">>,
      <<"-","1"," ","j","a","m"," ","3","0"," ","m","n","t">>,
      <<"1"," ","j","a","m"," ","-","3","0"," ","m","n","t">>,
      <<EmDash,"2"," ","j","a","m">>,
      <<EnDash,"1"," ","h","a","r","i"," ",EnDash," ","2"," ","j","a","m">>,
      <<"3"," ","h","r">>,
      <<"3"," ","h","r","s">>,
      <<"5"," ","m","i","n"," ","7"," ","s","e","c">>,
      <<"+","1","0"," ","d","t","k">>,
      <<" ","\t"," ">>,
      <<"t","e","p","a","t">> }

DeltaInputs == {NaN} \cup TokenTexts(MaxTokens) \cup ExampleTexts

---------------------------------------------------------------------------
(* Idle values of the components a specification does not exercise *)

NoCol == <<"<no column>">>

EmptyTable == [cols |-> {}, rows |-> <<>>]

ParserIdle  == text = NaN /\ parsed = None /\ ppc = "idle"
MonthlyIdle == df_monthly = EmptyTable /\ df_monthly_norm = <<>> /\ mpc = "idle"
YearlyIdle  == df_status_columns = <<>> /\ lat_col = NoCol /\ lon_col = NoCol
               /\ ypc = "idle"
MonthColIdle == month_headers = <<>> /\ bulan_cols = <<>> /\ month_cols = <<>>
                /\ cpc = "idle"

CellIdle == station_cells = <<>> /\ df_status_row = <<>> /\ df_perf_row = <<>>
            /\ spc = "idle"

TierIdle == tier_row = <<>> /\ marker_color = "" /\ tpc = "idle"

PeriodIdle == status_sheet = <<>> /\ df_bulan = <<>> /\ bpc = "idle"

PageIdle == page_sheet = <<>> /\ page_result = <<>> /\ gpc = "idle"

MapIdle == map_rows = <<>> /\ map_markers = <<>> /\ kpc = "idle"

LoadIdle == load_env = <<>> /\ load_out = <<>> /\ lpc = "idle"

CacheIdle == clock = 0 /\ url_cache = <<>> /\ data_cache = <<>>
             /\ served = <<>> /\ qpc = "idle"

DisplayIdle == display_src = <<>> /\ df_display = <<>> /\ dpc = "idle"

PagerIdle == df_perf = <<>> /\ pager_view = <<>> /\ rpc = "idle"

PipelineIdle ==
    /\ ParserIdle /\ MonthlyIdle /\ YearlyIdle /\ MonthColIdle
    /\ CellIdle /\ TierIdle /\ PeriodIdle

---------------------------------------------------------------------------
(* Specification of the duration parser: one cell is parsed *)

ParserInit ==
    /\ text \in DeltaInputs
    /\ parsed = None
    /\ ppc = "input"
    /\ MonthlyIdle
    /\ YearlyIdle
    /\ MonthColIdle /\ CellIdle /\ TierIdle /\ PeriodIdle
    /\ PageIdle /\ MapIdle /\ LoadIdle /\ CacheIdle /\ DisplayIdle /\ PagerIdle

\* df[orig].apply(parse_delta_to_hours), for one cell
ParseDelta ==
    /\ ppc = "input"
    /\ parsed' = parse_delta_to_hours(text)
    /\ ppc' = "done"
    /\ UNCHANGED <<text, monthlyVars, yearlyVars, monthColVars, cellVars, tierVars, periodVars,
                   pageVars, mapVars, loadVars, cacheVars, displayVars, pagerVars>>

ParserNext == ParseDelta

ParserSpec == ParserInit /\ [][ParserNext]_vars

---------------------------------------------------------------------------
(* Claims about the duration parser *)

Blank(t) == \A i \in 1..Len(t) : IsSpace(t[i])

Abs(n) == IF n < 0 THEN -n ELSE n

IsDash(c) == c \in {"-", EnDash, EmDash}

ParsedText == ppc = "done" /\ ~isna(text) /\ ~Blank(text)

\* C6: parse_delta_to_hours returns null exactly when its input is null/NaN
\* or blank after trimming; every other text, also one without any unit
\* token, yields a number.
C6_NullIffBlank ==
    ppc = "done" => (parsed.isnull <=> (isna(text) \/ Blank(text)))

\* a text without any unit token was parsed to the number 0
C6_Witness ==
    /\ ParsedText
    /\ text = <<"t","e","p","a","t">>
    /\ parsed = Hours(0)

\* the normalisation the specification describes: dashes to '-', and both
\* 'hrs' and 'hr' to the hours unit
SpecNormalize(s) ==
    Replace(Replace(Replace(Replace(s, <<EnDash>>, <<"-">>),
                            <<EmDash>>, <<"-">>),
                    T_hrs, T_jam),
            T_hr, T_jam)

SpecSeconds(t) ==
    LET s == SpecNormalize(Strip(t))
    IN  (IF s[1] = "-" THEN -1 ELSE 1)
        * ( unit_value(s, {T_hari}) * 86400
          + unit_value(s, {T_jam}) * 3600
          + unit_value(s, {T_mnt, T_min}) * 60
          + unit_value(s, {T_dtk, T_sec, T_s}) )

\* C7: for every non-blank text the result is
\* sign x (days x 24 + hours + minutes/60 + seconds/3600), each magnitude
\* being the integer written before that unit's token and 0 when the unit
\* is absent.
C7_Formula ==
    ParsedText => parsed = Hours(SpecSeconds(text))

\* the two worked examples of C7: '2 hari 3 jam' is 51 h, '-1 jam 30 mnt'
\* is -1.5 h
C7_Examples ==
    /\ (ppc = "done" /\ text = <<"2"," ","h","a","r","i"," ","3"," ","j","a","m">>)
          => parsed = Hours(51 * 3600)
    /\ (ppc = "done"
        /\ text = <<"-","1"," ","j","a","m"," ","3","0"," ","m","n","t">>)
          => parsed = Hours(-5400)

\* a '-' (or dash variant) after the first character that stands before a
\* number: position i of the trimmed text u
InnerDashBeforeNumber(u, i) ==
    /\ i \in 2..Len(u)
    /\ IsDash(u[i])
    /\ SkipSpaces(u, i + 1) <= Len(u)
    /\ IsDigit(u[SkipSpaces(u, i + 1)])

\* C8: the sign is decided once, from the first character of the trimmed
\* text after dash normalisation: a leading dash negates the whole value, a
\* leading '+' or no sign leaves it non-negative, and a '-' before a later
\* unit's number neither changes the sign nor subtracts that unit (blanking
\* it out leaves the result unchanged).
C8_SignOnce ==
    ParsedText =>
        LET u == Strip(text)
            rest == parse_delta_to_hours(Tail(u))
        IN  /\ IsDash(u[1]) => parsed.secs = -Abs(rest.secs)
            /\ u[1] = "+" => parsed.secs = Abs(rest.secs)
            /\ ~IsDash(u[1]) => parsed.secs >= 0
            /\ \A i \in 1..Len(u) :
                   InnerDashBeforeNumber(u, i) =>
                       parse_delta_to_hours([u EXCEPT ![i] = " "]) = parsed

\* a text with a leading en-dash and a dash before a later unit was parsed
\* to minus the sum of both units
C8_Witness ==
    /\ ParsedText
    /\ text = <<EnDash,"1"," ","h","a","r","i"," ",EnDash," ","2"," ","j","a","m">>
    /\ parsed = Hours(-(86400 + 7200))

\* the text is '<n> hr' or '<n> hrs' and nothing else
HrText(t) ==
    LET l == SkipDigits(t, 1)
        m == SkipSpaces(t, l)
    IN  /\ l > 1
        /\ SubSeq(t, m, Len(t)) \in {T_hr, T_hrs}

\* C9: 'hrs' and 'hr' both denote hours: '<n> hrs' and '<n> hr' parse to
\* n hours.
C9_HrIsHours ==
    (ParsedText /\ HrText(text)) =>
        parsed = Hours(3600 * ToInt(SubSeq(text, 1, SkipDigits(text, 1) - 1)))

\* diagnostic: every text without the letters 'hr' follows the formula, and
\* '<n> hrs' is n hours
C9_HrsOnly ==
    /\ (ParsedText /\ ~Contains(text, T_hr)) => parsed = Hours(SpecSeconds(text))
    /\ (ParsedText /\ HrText(text) /\ Contains(text, T_hrs)) =>
           parsed = Hours(3600 * ToInt(SubSeq(text, 1, SkipDigits(text, 1) - 1)))

---------------------------------------------------------------------------
(* Cells of a table read from CSV: missing, integer, float or text *)

NaNCell      == [kind |-> "nan",   num |-> 0, str |-> <<>>]
IntCell(n)   == [kind |-> "int",   num |-> n, str |-> <<>>]
FloatCell(n) == [kind |-> "float", num |-> n, str |-> <<>>]   \* the float n.0
StrCell(s)   == [kind |-> "str",   num |-> 0, str |-> s]

\* pd.isna(v) of a cell
cell_isna(v) == v.kind = "nan"

RECURSIVE NatToStr(_)
NatToStr(n) ==
    IF n < 10 THEN <<Digits[n + 1]>>
    ELSE NatToStr(n \div 10) \o <<Digits[(n % 10) + 1]>>

\* str(v): '1' for the integer 1, '1.0' for the float 1.0, the text itself
str_of(v) ==
    LET digits == IF v.num < 0 THEN <<"-">> \o NatToStr(-v.num)
                  ELSE NatToStr(v.num)
    IN  CASE v.kind = "int"   -> digits
          [] v.kind = "float" -> digits \o <<".", "0">>
          [] v.kind = "str"   -> v.str
          [] OTHER            -> <<"n","a","n">>

\* float(text) for texts of the form  [ws][+|-]digits[.digit][ws] ; any
\* other text of the input sets raises ValueError (ok = FALSE).  The value
\* is held in tenths.
parse_float(t) ==
    LET u == Strip(t)
        j == IF u # <<>> /\ u[1] \in {"+", "-"} THEN 2 ELSE 1
        l == SkipDigits(u, j)
        whole == ToInt(SubSeq(u, j, l - 1))
        neg == u # <<>> /\ u[1] = "-"
        signed(n) == IF neg THEN -n ELSE n
    IN  IF l = j THEN [ok |-> FALSE, val |-> 0]
        ELSE IF l = Len(u) + 1 THEN [ok |-> TRUE, val |-> signed(10 * whole)]
        ELSE IF l + 1 = Len(u) /\ u[l] = "." /\ IsDigit(u[l + 1])
             THEN [ok |-> TRUE, val |-> signed(10 * whole + DigitVal(u[l + 1]))]
        ELSE [ok |-> FALSE, val |-> 0]

\* float(v) of a non-missing cell, in tenths
float_of(v) ==
    IF v.kind \in {"int", "float"} THEN [ok |-> TRUE, val |-> 10 * v.num]
    ELSE parse_float(v.str)

---------------------------------------------------------------------------
(* normalize_monthly_df *)

TrueTexts ==
    { <<"Y","A">>, <<"Y">>, <<"Y","E","S">>, <<"T","R","U","E">>, <<"T">>,
      <<"1">>, <<"O","K">> }

to_bool(v) ==
    IF cell_isna(v) THEN FALSE
    ELSE Upper(Strip(str_of(v))) \in TrueTexts

ON_TIME  == "TEPAT WAKTU"
LATE     == "TERLAMBAT"
NOT_SENT == "TIDAK MENGIRIM"

\* derive_status without the final default: falls off the end (None)
derive_status_nodefault(terkirim_bool, tepat_bool, has_delta, delta) ==
    IF ~terkirim_bool THEN NOT_SENT
    ELSE IF terkirim_bool /\ tepat_bool THEN ON_TIME
    ELSE IF has_delta /\ ~cell_isna(delta) /\ float_of(delta).ok
         THEN IF float_of(delta).val > 0 THEN ON_TIME ELSE LATE
    ELSE "<None>"

\* derive_status testing the on-time flag before the sent flag
derive_status_ontime_first(terkirim_bool, tepat_bool, has_delta, delta) ==
    IF tepat_bool THEN ON_TIME
    ELSE IF ~terkirim_bool THEN NOT_SENT
    ELSE IF has_delta /\ ~cell_isna(delta) /\ float_of(delta).ok
         THEN IF float_of(delta).val > 0 THEN ON_TIME ELSE LATE
    ELSE ON_TIME

\* derive_status with  val >= 0  in place of  val > 0
derive_status_ge(terkirim_bool, tepat_bool, has_delta, delta) ==
    IF ~terkirim_bool THEN NOT_SENT
    ELSE IF terkirim_bool /\ tepat_bool THEN ON_TIME
    ELSE IF has_delta /\ ~cell_isna(delta) /\ float_of(delta).ok
         THEN IF float_of(delta).val >= 0 THEN ON_TIME ELSE LATE
    ELSE ON_TIME

\* derive_status consulting the delta before the on-time flag
derive_status_delta_first(terkirim_bool, tepat_bool, has_delta, delta) ==
    IF ~terkirim_bool THEN NOT_SENT
    ELSE IF has_delta /\ ~cell_isna(delta) /\ float_of(delta).ok
         THEN IF float_of(delta).val > 0 THEN ON_TIME ELSE LATE
    ELSE ON_TIME

\* derive_status without try/except around float(): the ValueError escapes
derive_status_notry(terkirim_bool, tepat_bool, has_delta, delta) ==
    IF ~terkirim_bool THEN NOT_SENT
    ELSE IF terkirim_bool /\ tepat_bool THEN ON_TIME
    ELSE IF has_delta /\ ~cell_isna(delta)
         THEN IF ~float_of(delta).ok THEN "<ValueError>"
              ELSE IF float_of(delta).val > 0 THEN ON_TIME ELSE LATE
    ELSE ON_TIME

\* lines 521-536; has_delta is  "time_diff_hours_num" in row
derive_status(terkirim_bool, tepat_bool, has_delta, delta) ==
    IF ~terkirim_bool THEN NOT_SENT
    ELSE IF terkirim_bool /\ tepat_bool THEN ON_TIME
    ELSE IF has_delta /\ ~cell_isna(delta) /\ float_of(delta).ok
         THEN IF float_of(delta).val > 0 THEN ON_TIME ELSE LATE
    ELSE ON_TIME

C_terkirim == "terkirim"
C_tepat    == "tepat_waktu"
C_delta    == "time_diff_hours_num"
C_station  == "station_name"
C_wmoid    == "wmoid"

\* terkirim_bool that counts a record of a table without the column as sent
terkirim_bool_of_absent_true(df, row) ==
    IF C_terkirim \in df.cols THEN to_bool(row.terkirim) ELSE TRUE

\* lines 510-513: the column terkirim_bool, for one row
terkirim_bool_of(df, row) ==
    IF C_terkirim \in df.cols THEN to_bool(row.terkirim) ELSE FALSE

\* lines 515-518: the column tepat_bool, for one row
tepat_bool_of(df, row) ==
    IF C_tepat \in df.cols THEN to_bool(row.tepat_waktu) ELSE FALSE

\* normalize_monthly_df that keeps the first record of every station only
\* (drop_duplicates on station_name and wmoid)
normalize_monthly_df_drop_duplicates(df) ==
    LET n == Len(df.rows)
        same(i, j) == /\ df.rows[i].station_name = df.rows[j].station_name
                      /\ df.rows[i].wmoid = df.rows[j].wmoid
        keep[i \in 0..n] ==
            IF i = 0 THEN <<>>
            ELSE IF \E j \in 1..(i - 1) : same(i, j) THEN keep[i - 1]
                 ELSE Append(keep[i - 1], i)
    IN  [k \in 1..Len(keep[n]) |->
            LET row == df.rows[keep[n][k]]
            IN  [status |-> derive_status(terkirim_bool_of(df, row),
                                          tepat_bool_of(df, row),
                                          C_delta \in df.cols,
                                          row.time_diff_hours_num),
                 station_name |-> row.station_name,
                 wmoid |-> row.wmoid,
                 terkirim |-> row.terkirim,
                 tepat_waktu |-> row.tepat_waktu,
                 time_diff_hours_num |-> row.time_diff_hours_num]]

\* lines 497-545: one output row per input row, with the derived status and
\* the input columns that col_order keeps
normalize_monthly_df(df) ==
    IF df.rows = <<>> THEN <<>>
    ELSE [i \in 1..Len(df.rows) |->
            LET row == df.rows[i]
            IN  [status |-> derive_status(terkirim_bool_of(df, row),
                                          tepat_bool_of(df, row),
                                          C_delta \in df.cols,
                                          row.time_diff_hours_num),
                 station_name |-> row.station_name,
                 wmoid |-> row.wmoid,
                 terkirim |-> row.terkirim,
                 tepat_waktu |-> row.tepat_waktu,
                 time_diff_hours_num |-> row.time_diff_hours_num]]

---------------------------------------------------------------------------
(* Inputs of the monthly classifier *)

\* the value a row carries for a column the table does not have
AbsentCell == [kind |-> "absent", num |-> 0, str |-> <<>>]

FlagCells ==
    { NaNCell, IntCell(1), IntCell(0), StrCell(<<" ","y","a"," ">>) }

DeltaCells ==
    { NaNCell, FloatCell(2), FloatCell(0), FloatCell(-2),
      StrCell(<<"a","b","c">>) }

\* further cell values, tried in one-row tables
MoreFlagCells ==
    FlagCells \cup { FloatCell(1), StrCell(<<"T","i","d","a","k">>),
                     StrCell(<<"t","r","u","e">>), StrCell(<<"o","k","e">>) }

MoreDeltaCells ==
    DeltaCells \cup { IntCell(1), StrCell(<<"0",".","5">>),
                      StrCell(<<" ","-","1"," ">>), StrCell(<<"-">>) }

ColumnSets == SUBSET {C_terkirim, C_tepat, C_delta}

\* identity cells, and the narrower flag and delta cells of the tables that
\* have the identity columns
StationNameCells == { StrCell(<<"A">>), StrCell(<<"B">>) }
WmoidCells       == { IntCell(1), IntCell(2) }
IdFlagCells      == { IntCell(1), IntCell(0) }
IdDeltaCells     == { NaNCell, FloatCell(-2) }

RowsOver(cols, flags, deltas) ==
    [station_name : IF C_station \in cols THEN StationNameCells ELSE {AbsentCell},
     wmoid : IF C_wmoid \in cols THEN WmoidCells ELSE {AbsentCell},
     terkirim : IF C_terkirim \in cols THEN flags ELSE {AbsentCell},
     tepat_waktu : IF C_tepat \in cols THEN flags ELSE {AbsentCell},
     time_diff_hours_num : IF C_delta \in cols THEN deltas ELSE {AbsentCell}]

\* the rows a generated table may hold: the first row ranges over the wider
\* cell sets, and only tables of the narrower cells grow further
NextRows(df) ==
    IF C_station \in df.cols
    THEN RowsOver(df.cols, IdFlagCells, IdDeltaCells)
    ELSE IF df.rows = <<>>
    THEN RowsOver(df.cols, MoreFlagCells, MoreDeltaCells)
    ELSE RowsOver(df.cols, FlagCells, DeltaCells)

CanGrow(df) ==
    /\ Len(df.rows) < MaxRows
    /\ \A i \in 1..Len(df.rows) :
           df.rows[i] \in RowsOver(df.cols, FlagCells, DeltaCells)

---------------------------------------------------------------------------
(* Specification of the monthly classifier *)

MonthlyInit ==
    /\ df_monthly \in { [cols |-> c, rows |-> <<>>] : c \in ColumnSets }
    /\ df_monthly_norm = <<>>
    /\ mpc = "reading"
    /\ ParserIdle
    /\ YearlyIdle
    /\ MonthColIdle /\ CellIdle /\ TierIdle /\ PeriodIdle
    /\ PageIdle /\ MapIdle /\ LoadIdle /\ CacheIdle /\ DisplayIdle /\ PagerIdle

\* line 139, pd.read_csv: one more row of the monthly sheet is read
ReadMonthlyRow ==
    /\ mpc = "reading"
    /\ CanGrow(df_monthly)
    /\ \E row \in NextRows(df_monthly) :
          df_monthly' = [df_monthly EXCEPT !.rows = Append(@, row)]
    /\ UNCHANGED <<df_monthly_norm, mpc, parserVars, yearlyVars, monthColVars, cellVars, tierVars, periodVars,
                   pageVars, mapVars, loadVars, cacheVars, displayVars, pagerVars>>

\* line 553: df_monthly_norm = normalize_monthly_df(df_monthly), once the
\* sheet is read
NormalizeMonthly ==
    /\ mpc = "reading"
    /\ df_monthly_norm' = normalize_monthly_df(df_monthly)
    /\ mpc' = "normalized"
    /\ UNCHANGED <<df_monthly, parserVars, yearlyVars, monthColVars, cellVars, tierVars, periodVars,
                   pageVars, mapVars, loadVars, cacheVars, displayVars, pagerVars>>

MonthlyNext == ReadMonthlyRow \/ NormalizeMonthly

MonthlySpec == MonthlyInit /\ [][MonthlyNext]_vars

\* the monthly sheet with its identity columns
RecordInit ==
    /\ df_monthly = [cols |-> {C_station, C_wmoid, C_terkirim, C_tepat, C_delta},
                     rows |-> <<>>]
    /\ df_monthly_norm = <<>>
    /\ mpc = "reading"
    /\ ParserIdle
    /\ YearlyIdle
    /\ MonthColIdle /\ CellIdle /\ TierIdle /\ PeriodIdle
    /\ PageIdle /\ MapIdle /\ LoadIdle /\ CacheIdle /\ DisplayIdle /\ PagerIdle

RecordSpec == RecordInit /\ [][MonthlyNext]_vars

---------------------------------------------------------------------------
(* Claims about the monthly classifier *)

Normalized == mpc = "normalized"

RowIds == 1..Len(df_monthly.rows)

\* the record's flags and delta as the claims speak of them
Sent(i)   == C_terkirim \in df_monthly.cols /\ to_bool(df_monthly.rows[i].terkirim)
OnTime(i) == C_tepat \in df_monthly.cols /\ to_bool(df_monthly.rows[i].tepat_waktu)

DeltaCell(i) == df_monthly.rows[i].time_diff_hours_num

\* a numeric delta_hours is present
HasNumericDelta(i) ==
    /\ C_delta \in df_monthly.cols
    /\ DeltaCell(i).kind \in {"int", "float", "str"}
    /\ float_of(DeltaCell(i)).ok

DeltaTenths(i) == float_of(DeltaCell(i)).val

StatusOf(i) == df_monthly_norm[i].status

\* C1: every record gets exactly one of the three statuses, never null and
\* never a fourth value, whatever its sent flag, on-time flag and delta.
C1_ThreeStatuses ==
    Normalized =>
        /\ Len(df_monthly_norm) = Len(df_monthly.rows)
        /\ \A i \in RowIds : StatusOf(i) \in {ON_TIME, LATE, NOT_SENT}

\* a sent, not on-time record with a non-numeric delta text was classified
C1_Witness ==
    /\ Normalized
    /\ \E i \in RowIds :
          /\ Sent(i) /\ ~OnTime(i)
          /\ C_delta \in df_monthly.cols
          /\ DeltaCell(i) = StrCell(<<"a","b","c">>)
          /\ StatusOf(i) = ON_TIME

\* C2: a record whose sent flag is false is NOT_SENT, whatever its on-time
\* flag and delta are.
C2_NotSentFirst ==
    Normalized => \A i \in RowIds : ~Sent(i) => StatusOf(i) = NOT_SENT

\* a record not sent, yet flagged on-time and with a positive delta
C2_Witness ==
    /\ Normalized
    /\ \E i \in RowIds :
          /\ ~Sent(i) /\ OnTime(i)
          /\ HasNumericDelta(i) /\ DeltaTenths(i) > 0
          /\ StatusOf(i) = NOT_SENT

\* C3: a record sent and not on-time with a numeric delta is ON_TIME when
\* the delta is > 0 and LATE when it is <= 0 (0 gives LATE).
C3_DeltaOverride ==
    Normalized =>
        \A i \in RowIds :
            (Sent(i) /\ ~OnTime(i) /\ HasNumericDelta(i)) =>
                StatusOf(i) = IF DeltaTenths(i) > 0 THEN ON_TIME ELSE LATE

\* one table holds a sent, not on-time record with delta 0 classified LATE
\* and one with delta 2 classified ON_TIME
C3_Witness ==
    /\ Normalized
    /\ \E i, j \in RowIds :
          /\ Sent(i) /\ ~OnTime(i) /\ HasNumericDelta(i)
          /\ DeltaTenths(i) = 0 /\ StatusOf(i) = LATE
          /\ Sent(j) /\ ~OnTime(j) /\ HasNumericDelta(j)
          /\ DeltaTenths(j) = 20 /\ StatusOf(j) = ON_TIME

\* C4: a record sent and on-time is ON_TIME whatever its delta is, also
\* when the delta is zero or negative.
C4_OnTimeBeforeDelta ==
    Normalized => \A i \in RowIds : (Sent(i) /\ OnTime(i)) => StatusOf(i) = ON_TIME

\* a sent, on-time record with a negative delta was classified ON_TIME
C4_Witness ==
    /\ Normalized
    /\ \E i \in RowIds :
          /\ Sent(i) /\ OnTime(i)
          /\ HasNumericDelta(i) /\ DeltaTenths(i) < 0
          /\ StatusOf(i) = ON_TIME

\* the delta is unusable: column absent, value missing, or not a number
NoUsableDelta(i) ==
    \/ C_delta \notin df_monthly.cols
    \/ DeltaCell(i).kind = "nan"
    \/ ~float_of(DeltaCell(i)).ok

\* C5: a record sent, not on-time and without a usable delta is ON_TIME,
\* and classifying it does not raise.
C5_DefaultOnTime ==
    Normalized =>
        \A i \in RowIds :
            (Sent(i) /\ ~OnTime(i) /\ NoUsableDelta(i)) => StatusOf(i) = ON_TIME

\* the three kinds of unusable delta each met a sent, not on-time record
C5_Witness ==
    /\ Normalized
    /\ \E i \in RowIds :
          /\ Sent(i) /\ ~OnTime(i) /\ StatusOf(i) = ON_TIME
          /\ \/ C_delta \notin df_monthly.cols
             \/ DeltaCell(i).kind = "nan"
             \/ DeltaCell(i) = StrCell(<<"-">>)

---------------------------------------------------------------------------
(* Column resolver of the yearly status sheet: latitude / longitude *)

BOM == "bom"            \* the single character U+FEFF

\* clean_columns, for one header: str(c).strip().replace(U+FEFF, '')
clean_header(c) == Replace(Strip(c), <<BOM>>, <<>>)

\* lines 1003-1007
clean_columns(cols) == [i \in 1..Len(cols) |-> clean_header(cols[i])]

\* s[:3]
Prefix3(s) == SubSeq(s, 1, IF Len(s) < 3 THEN Len(s) ELSE 3)

LatNames ==
    { <<"l","a","t">>, <<"l","a","t","i","t","u","d","e">>,
      <<"c","o","o","r","d","_","l","a","t">>, <<"y">> }

LonNames ==
    { <<"l","o","n">>, <<"l","n","g">>, <<"l","o","n","g","i","t","u","d","e">>,
      <<"c","o","o","r","d","_","l","o","n">>, <<"x">> }

\* line 1041, with cl = c.strip().lower()
is_lat_header(c) ==
    LET cl == Lower(Strip(c))
    IN  cl \in LatNames \/ Prefix3(cl) = <<"l","a","t">>

\* line 1043
is_lon_header(c) ==
    LET cl == Lower(Strip(c))
    IN  cl \in LonNames \/ Prefix3(cl) \in { <<"l","o","n">>, <<"l","n","g">> }

\* lines 1039-1042: the loop assigns lat_col at every matching header
RECURSIVE lat_scan(_, _, _)
lat_scan(cols, i, acc) ==
    IF i > Len(cols) THEN acc
    ELSE lat_scan(cols, i + 1, IF is_lat_header(cols[i]) THEN cols[i] ELSE acc)

\* lines 1039-1044: the loop assigns lon_col at every matching header
RECURSIVE lon_scan(_, _, _)
lon_scan(cols, i, acc) ==
    IF i > Len(cols) THEN acc
    ELSE lon_scan(cols, i + 1, IF is_lon_header(cols[i]) THEN cols[i] ELSE acc)

HasColumn(cols, name) == \E i \in 1..Len(cols) : cols[i] = name

\* lines 1037-1046
detect_lat_col(cols) ==
    LET found == lat_scan(cols, 1, NoCol)
    IN  IF found # NoCol THEN found
        ELSE IF HasColumn(cols, <<"L","A","T">>) THEN <<"L","A","T">> ELSE NoCol

\* lines 1038-1047
detect_lon_col(cols) ==
    LET found == lon_scan(cols, 1, NoCol)
    IN  IF found # NoCol THEN found
        ELSE IF HasColumn(cols, <<"L","O","N">>) THEN <<"L","O","N">> ELSE NoCol

---------------------------------------------------------------------------
(* Inputs of the column resolver *)

HeaderPool ==
    { <<"L","a","t">>,
      <<"l","a","t","i","t","u","d","e">>,
      <<"y">>,
      <<" ","l","a","t","e","s","t"," ">>,
      <<"l","o","n">>,
      <<"L","N","G">>,
      <<"x">>,
      <<BOM," ","L","o","n","g","i","t","u","d","e">>,
      <<"s","t","a","t","i","o","n">> }

RECURSIVE HeaderSeqs(_)
HeaderSeqs(n) ==
    IF n = 0 THEN { <<>> }
    ELSE LET shorter == HeaderSeqs(n - 1)
         IN  shorter \cup
             { Append(r, h) : r \in { q \in shorter : Len(q) = n - 1 },
                              h \in HeaderPool }

\* header rows of distinct headers
StatusHeaderRows ==
    { r \in HeaderSeqs(MaxCols) :
        \A i, j \in 1..Len(r) : i # j => r[i] # r[j] }

---------------------------------------------------------------------------
(* Specification of the column resolver *)

YearlyInit ==
    /\ df_status_columns \in StatusHeaderRows
    /\ lat_col = NoCol
    /\ lon_col = NoCol
    /\ ypc = "loaded"
    /\ ParserIdle
    /\ MonthlyIdle
    /\ MonthColIdle /\ CellIdle /\ TierIdle /\ PeriodIdle
    /\ PageIdle /\ MapIdle /\ LoadIdle /\ CacheIdle /\ DisplayIdle /\ PagerIdle

\* lines 1030-1050 of the Monitoring Tahunan page: an empty sheet is only
\* reported; otherwise the headers are cleaned and the coordinate columns
\* resolved, and a missing axis is reported
ResolveCoordinateColumns ==
    /\ ypc = "loaded"
    /\ IF df_status_columns = <<>>
       THEN /\ ypc' = "empty"
            /\ UNCHANGED <<lat_col, lon_col>>
       ELSE LET cols == clean_columns(df_status_columns)
            IN  /\ lat_col' = detect_lat_col(cols)
                /\ lon_col' = detect_lon_col(cols)
                /\ ypc' = IF detect_lat_col(cols) = NoCol
                             \/ detect_lon_col(cols) = NoCol
                          THEN "no_coordinates"
                          ELSE "resolved"
    /\ UNCHANGED <<df_status_columns, parserVars, monthlyVars, monthColVars, cellVars, tierVars, periodVars,
                   pageVars, mapVars, loadVars, cacheVars, displayVars, pagerVars>>

YearlyNext == ResolveCoordinateColumns

YearlySpec == YearlyInit /\ [][YearlyNext]_vars

---------------------------------------------------------------------------
(* Claims about the column resolver *)

Resolved == ypc \in {"resolved", "no_coordinates"}

CleanedHeaders == clean_columns(df_status_columns)

\* the leftmost header satisfying the axis match, NoCol when none does
FirstLat ==
    IF \E i \in 1..Len(CleanedHeaders) : is_lat_header(CleanedHeaders[i])
    THEN CleanedHeaders[CHOOSE i \in 1..Len(CleanedHeaders) :
                            /\ is_lat_header(CleanedHeaders[i])
                            /\ \A j \in 1..(i - 1) : ~is_lat_header(CleanedHeaders[j])]
    ELSE NoCol

FirstLon ==
    IF \E i \in 1..Len(CleanedHeaders) : is_lon_header(CleanedHeaders[i])
    THEN CleanedHeaders[CHOOSE i \in 1..Len(CleanedHeaders) :
                            /\ is_lon_header(CleanedHeaders[i])
                            /\ \A j \in 1..(i - 1) : ~is_lon_header(CleanedHeaders[j])]
    ELSE NoCol

\* C10: per axis the resolver picks the first header, in left-to-right
\* order, that satisfies the match; a later qualifying header never replaces
\* the first.
C10_FirstMatchWins ==
    Resolved => (lat_col = FirstLat /\ lon_col = FirstLon)

\* diagnostic: what the loop does instead -- no qualifying header stands to
\* the right of the resolved one
C10_LastMatchWins ==
    Resolved =>
        \A i \in 1..Len(CleanedHeaders) :
            /\ (lat_col = CleanedHeaders[i]) =>
                   \A j \in (i + 1)..Len(CleanedHeaders) :
                       ~is_lat_header(CleanedHeaders[j])
            /\ (lon_col = CleanedHeaders[i]) =>
                   \A j \in (i + 1)..Len(CleanedHeaders) :
                       ~is_lon_header(CleanedHeaders[j])

---------------------------------------------------------------------------
(* Column resolver of the yearly status sheet: month columns *)

MONTH_ABBR ==
    << <<"J","a","n">>, <<"F","e","b">>, <<"M","a","r">>, <<"A","p","r">>,
       <<"M","e","i">>, <<"J","u","n">>, <<"J","u","l">>, <<"A","g","t">>,
       <<"S","e","p">>, <<"O","k","t">>, <<"N","o","v">>, <<"D","e","s">> >>

\* m[:3].lower()
month_code(k) == Lower(Prefix3(MONTH_ABBR[k]))

\* str(c).strip()[:3].lower() == m[:3].lower()
month_prefix_match(c, k) == Lower(Prefix3(Strip(c))) = month_code(k)

\* m[:3].lower() in str(c).lower()
month_code_in(c, k) == Contains(Lower(c), month_code(k))

InSeq(x, s) == \E i \in 1..Len(s) : s[i] = x

\* lines 1014-1018: the inner loop of detect_month_columns for month k,
\* from column i on; it appends the first matching column that res does not
\* hold yet and stops
RECURSIVE month_first(_, _, _, _)
month_first(cols, k, res, i) ==
    IF i > Len(cols) THEN res
    ELSE IF ~InSeq(cols[i], res) /\ month_prefix_match(cols[i], k)
         THEN Append(res, cols[i])
         ELSE month_first(cols, k, res, i + 1)

\* lines 1012-1018: the outer loop over MONTH_ABBR, from month k on
RECURSIVE month_loop(_, _, _)
month_loop(cols, k, res) ==
    IF k > Len(MONTH_ABBR) THEN res
    ELSE month_loop(cols, k + 1, month_first(cols, k, res, 1))

\* a resolver that walks the header row and keeps every month-like header in
\* the order of the sheet
detect_month_columns_sheet_order(cols) ==
    SelectSeq(cols, LAMBDA c : \E k \in 1..Len(MONTH_ABBR) : month_prefix_match(c, k))

\* lines 1009-1021
detect_month_columns(cols) == month_loop(cols, 1, <<>>)

\* line 1251: next((c for c in columns if <prefix match>), None)
RECURSIVE next_prefix_match(_, _, _)
next_prefix_match(cols, k, i) ==
    IF i > Len(cols) THEN NoCol
    ELSE IF month_prefix_match(cols[i], k) THEN cols[i]
    ELSE next_prefix_match(cols, k, i + 1)

\* lines 1249-1253: the strict loop of the Performa Stasiun page, from month
\* k on; an empty header is falsy and is not appended
RECURSIVE strict_month_cols(_, _, _)
strict_month_cols(cols, k, res) ==
    IF k > Len(MONTH_ABBR) THEN res
    ELSE LET match == next_prefix_match(cols, k, 1)
         IN  strict_month_cols(cols, k + 1,
                 IF match # NoCol /\ match # <<>> THEN Append(res, match) ELSE res)

\* lines 1062 / 1257: the columns containing some month code
possible_month_cols(cols) ==
    SelectSeq(cols, LAMBDA c : \E k \in 1..Len(MONTH_ABBR) : month_code_in(c, k))

\* lines 1066-1068 / 1260-1262: the inner loop for month k, from column i on
RECURSIVE fallback_inner(_, _, _, _)
fallback_inner(possible, k, ordered, i) ==
    IF i > Len(possible) THEN ordered
    ELSE IF ~InSeq(possible[i], ordered) /\ month_code_in(possible[i], k)
         THEN fallback_inner(possible, k, Append(ordered, possible[i]), i + 1)
         ELSE fallback_inner(possible, k, ordered, i + 1)

\* lines 1065-1068 / 1259-1262: the loop over MONTH_ABBR, from month k on
RECURSIVE fallback_loop(_, _, _)
fallback_loop(possible, k, ordered) ==
    IF k > Len(MONTH_ABBR) THEN ordered
    ELSE fallback_loop(possible, k + 1, fallback_inner(possible, k, ordered, 1))

\* lines 1061-1069 and 1256-1263
fallback_month_cols(cols) == fallback_loop(possible_month_cols(cols), 1, <<>>)

\* lines 1059-1069: bulan_cols of the Monitoring Tahunan page
resolve_bulan_cols(cols) ==
    LET strict == detect_month_columns(cols)
    IN  IF strict = <<>> THEN fallback_month_cols(cols) ELSE strict

\* lines 1249-1263: month_cols of the Performa Stasiun page
resolve_month_cols(cols) ==
    LET strict == strict_month_cols(cols, 1, <<>>)
    IN  IF strict = <<>> THEN fallback_month_cols(cols) ELSE strict

---------------------------------------------------------------------------
(* Inputs of the month-column resolver *)

MonthHeaderPool ==
    { <<"J","a","n","_","2","0","2","4">>,
      <<"D","e","s","_","2","0","2","4">>,
      <<"s","t","a","t","u","s">>,
      <<" ","J","A","N","U","A","R","I">>,
      <<BOM,"F","e","b">>,
      <<"A","g","t">>,
      <<"x","_","j","a","n">>,
      <<"y","_","J","A","N">>,
      <<"r","_","d","e","s">>,
      <<"z","_","f","e","b","_","j","a","n">> }

RECURSIVE MonthHeaderSeqs(_)
MonthHeaderSeqs(n) ==
    IF n = 0 THEN { <<>> }
    ELSE LET shorter == MonthHeaderSeqs(n - 1)
         IN  shorter \cup
             { Append(r, h) : r \in { q \in shorter : Len(q) = n - 1 },
                              h \in MonthHeaderPool }

\* header rows of distinct headers
MonthHeaderRows ==
    { r \in MonthHeaderSeqs(MaxCols) :
        \A i, j \in 1..Len(r) : i # j => r[i] # r[j] }

---------------------------------------------------------------------------
(* Specification of the month-column resolver.  month_headers are the      *)
(* headers of a non-empty status sheet other than the two coordinate       *)
(* columns, which the Monitoring Tahunan page has resolved before.         *)

MonthColInit ==
    /\ month_headers \in MonthHeaderRows
    /\ bulan_cols = <<>>
    /\ month_cols = <<>>
    /\ cpc = "loaded"
    /\ ParserIdle /\ MonthlyIdle /\ YearlyIdle
    /\ CellIdle /\ TierIdle /\ PeriodIdle
    /\ PageIdle /\ MapIdle /\ LoadIdle /\ CacheIdle /\ DisplayIdle /\ PagerIdle

\* lines 1034 and 1059-1069: Monitoring Tahunan resolves bulan_cols
ResolveBulanCols ==
    /\ cpc = "loaded"
    /\ bulan_cols' = resolve_bulan_cols(clean_columns(month_headers))
    /\ cpc' = "monitoring"
    /\ UNCHANGED <<month_headers, month_cols, parserVars, monthlyVars, yearlyVars,
                   cellVars, tierVars, periodVars,
                   pageVars, mapVars, loadVars, cacheVars, displayVars, pagerVars>>

\* lines 1245-1263: Performa Stasiun resolves month_cols
ResolveMonthCols ==
    /\ cpc = "loaded"
    /\ month_cols' = resolve_month_cols(clean_columns(month_headers))
    /\ cpc' = "performa"
    /\ UNCHANGED <<month_headers, bulan_cols, parserVars, monthlyVars, yearlyVars,
                   cellVars, tierVars, periodVars,
                   pageVars, mapVars, loadVars, cacheVars, displayVars, pagerVars>>

MonthColNext == ResolveBulanCols \/ ResolveMonthCols

MonthColSpec == MonthColInit /\ [][MonthColNext]_vars

---------------------------------------------------------------------------
(* Claims about the month-column resolver *)

MonthsResolved == cpc \in {"monitoring", "performa"}

\* the month columns the page at hand resolved
ResolvedCols == IF cpc = "monitoring" THEN bulan_cols ELSE month_cols

CleanMonthHeaders == clean_columns(month_headers)

MonthIds == 1..Len(MONTH_ABBR)

\* header i starts with the code of month k
StartsWithMonth(i, k) ==
    Lower(Prefix3(Strip(CleanMonthHeaders[i]))) = Lower(MONTH_ABBR[k])

\* header i contains the code of month k
ContainsMonth(i, k) == Contains(Lower(CleanMonthHeaders[i]), Lower(MONTH_ABBR[k]))

HeaderIds == 1..Len(CleanMonthHeaders)

AnyStrictMatch == \E i \in HeaderIds, k \in MonthIds : StartsWithMonth(i, k)

\* month k has a header starting with its code
StrictMonth(k) == \E i \in HeaderIds : StartsWithMonth(i, k)

\* the leftmost header starting with the code of month k
LeftmostStrict(k) ==
    CleanMonthHeaders[CHOOSE i \in HeaderIds :
                          /\ StartsWithMonth(i, k)
                          /\ \A j \in 1..(i - 1) : ~StartsWithMonth(j, k)]

\* the n-th month, in canonical order, that has a strict match
NthStrictMonth(n) ==
    CHOOSE k \in MonthIds :
        /\ StrictMonth(k)
        /\ Cardinality({ j \in 1..k : StrictMonth(j) }) = n

\* C11: strict resolution returns at most one column per month, the
\* leftmost header whose first three characters equal the month code
\* ignoring case, and lists the columns in canonical order Jan..Des whatever
\* the order of the source headers.
C11_StrictCanonicalOrder ==
    (MonthsResolved /\ AnyStrictMatch) =>
        /\ Len(ResolvedCols) = Cardinality({ k \in MonthIds : StrictMonth(k) })
        /\ \A n \in 1..Len(ResolvedCols) :
               ResolvedCols[n] = LeftmostStrict(NthStrictMonth(n))

\* the headers Des_2024, Jan_2024, status resolved to Jan_2024, Des_2024
C11_Witness ==
    /\ MonthsResolved
    /\ month_headers = << <<"D","e","s","_","2","0","2","4">>,
                          <<"J","a","n","_","2","0","2","4">>,
                          <<"s","t","a","t","u","s">> >>
    /\ ResolvedCols = << <<"J","a","n","_","2","0","2","4">>,
                         <<"D","e","s","_","2","0","2","4">> >>

\* the first canonical month whose code header i contains
FirstMonthIn(i) ==
    CHOOSE k \in MonthIds :
        ContainsMonth(i, k) /\ \A j \in 1..(k - 1) : ~ContainsMonth(i, j)

HasMonthCode(i) == \E k \in MonthIds : ContainsMonth(i, k)

\* position of a resolved column in the header row
HeaderIndex(c) == CHOOSE i \in HeaderIds : CleanMonthHeaders[i] = c

\* C12: in the fallback each month is mapped to the
\* first-encountered header containing its code only, so no month has more
\* than one column in the result.
C12_OneColumnPerMonth ==
    (MonthsResolved /\ ~AnyStrictMatch) =>
        \A k \in MonthIds :
            Cardinality({ n \in 1..Len(ResolvedCols) :
                            Contains(Lower(ResolvedCols[n]), Lower(MONTH_ABBR[k])) }) <= 1

\* what the code does: the fallback is used only when no header matches a
\* month by strict prefix; it then lists every header that contains a month code,
\* each once, ordered by the first canonical month whose code the header
\* contains and, within one month, in header order.
FallbackAllContaining ==
    MonthsResolved =>
        /\ AnyStrictMatch =>
               \A n \in 1..Len(ResolvedCols) :
                   \E k \in MonthIds :
                       Lower(Prefix3(Strip(ResolvedCols[n]))) = Lower(MONTH_ABBR[k])
        /\ ~AnyStrictMatch =>
               /\ Len(ResolvedCols) = Cardinality({ i \in HeaderIds : HasMonthCode(i) })
               /\ \A i \in HeaderIds : HasMonthCode(i) => InSeq(CleanMonthHeaders[i], ResolvedCols)
               /\ \A n \in 1..Len(ResolvedCols) : InSeq(ResolvedCols[n], CleanMonthHeaders)
               /\ \A a, b \in 1..Len(ResolvedCols) :
                      a < b =>
                          LET i == HeaderIndex(ResolvedCols[a])
                              j == HeaderIndex(ResolvedCols[b])
                          IN  \/ FirstMonthIn(i) < FirstMonthIn(j)
                              \/ (FirstMonthIn(i) = FirstMonthIn(j) /\ i < j)

---------------------------------------------------------------------------
(* Yearly matrix classifier: month cells of one station row *)

TEPAT_WAKTU_TEXT    == <<"T","E","P","A","T"," ","W","A","K","T","U">>
TERLAMBAT_TEXT      == <<"T","E","R","L","A","M","B","A","T">>
TIDAK_MENGIRIM_TEXT == <<"T","I","D","A","K"," ","M","E","N","G","I","R","I","M">>

\* str(x).strip().upper()
cell_text(x) == Upper(Strip(str_of(x)))

\* norm_cell with the test for TIDAK ahead of the tests for TEPAT and
\* TERLAMBAT
norm_cell_tidak_first(x) ==
    IF cell_isna(x) THEN <<>>
    ELSE LET s == cell_text(x)
         IN  IF Contains(s, <<"T","I","D","A","K">>) THEN TIDAK_MENGIRIM_TEXT
             ELSE IF Contains(s, <<"T","E","P","A","T">>) THEN TEPAT_WAKTU_TEXT
             ELSE IF Contains(s, <<"T","E","R","L","A","M","B","A","T">>) THEN TERLAMBAT_TEXT
             ELSE s

\* lines 1075-1090
norm_cell(x) ==
    IF cell_isna(x) THEN <<>>
    ELSE LET s == cell_text(x)
         IN  IF Contains(s, <<"T","E","P","A","T">>) THEN TEPAT_WAKTU_TEXT
             ELSE IF Contains(s, <<"T","E","R","L","A","M","B","A","T">>) THEN TERLAMBAT_TEXT
             ELSE IF \/ Contains(s, <<"T","I","D","A","K">>)
                     \/ Contains(s, <<"T","I","D","A","K"," ","M","E","N","G","I","R","I","M">>)
                     \/ /\ ~Contains(s, <<"M","E","N","G","I","R","I","M">>)
                        /\ (Contains(s, <<"-">>) \/ s = <<>>)
                  THEN IF Contains(s, <<"T","I","D","A","K"," ","M","E","N","G","I","R","I","M">>) \/ Contains(s, <<"T","I","D","A","K">>)
                       THEN TIDAK_MENGIRIM_TEXT
                       ELSE s
             ELSE s

\* norm_status_cell that maps every text without a keyword to TIDAK MENGIRIM
norm_status_cell_default(x) ==
    IF cell_isna(x) THEN <<>>
    ELSE LET s == cell_text(x)
         IN  IF Contains(s, <<"T","E","P","A","T">>) THEN TEPAT_WAKTU_TEXT
             ELSE IF Contains(s, <<"T","E","R","L","A","M","B","A","T">>) THEN TERLAMBAT_TEXT
             ELSE TIDAK_MENGIRIM_TEXT

\* lines 1270-1282
norm_status_cell(x) ==
    IF cell_isna(x) THEN <<>>
    ELSE LET s == cell_text(x)
         IN  IF Contains(s, <<"T","E","P","A","T">>) THEN TEPAT_WAKTU_TEXT
             ELSE IF Contains(s, <<"T","E","R","L","A","M","B","A","T">>) THEN TERLAMBAT_TEXT
             ELSE IF Contains(s, <<"T","I","D","A","K">>) \/ Contains(s, <<"T","I","D","A","K"," ","M","E","N","G","I","R","I","M">>)
                  THEN TIDAK_MENGIRIM_TEXT
             ELSE IF s \in { <<>>, <<"-">>, <<"N","/","A">>, <<"N","A">> }
                  THEN TIDAK_MENGIRIM_TEXT
             ELSE s

\* lines 1096-1097: hitung(row, kata) over the normalized month cells
hitung(row, kata) ==
    Cardinality({ i \in 1..Len(row) : Upper(Strip(row[i])) = kata })

\* lines 1289-1291: (col == kata).sum(axis=1) over the month columns
count_equal(row, kata) == Cardinality({ i \in 1..Len(row) : row[i] = kata })

\* a float: the quotient num/den of two integers, den > 0
Float(n, d) == [num |-> n, den |-> d]

FloatNaN == [num |-> 0, den |-> 0]

FloatInf == [num |-> 1, den |-> 0]

Zero == Float(0, 1)

\* Series.replace(0, np.nan)
replace_zero_nan(f) == IF f = Zero THEN FloatNaN ELSE f

\* fillna that leaves a missing value in place
fillna_keep(f) == f

\* Series.fillna(0)
fillna(f) == IF f = FloatNaN THEN Zero ELSE f

\* float division of two whole numbers held as floats; a NaN operand gives
\* NaN, 0/0 gives NaN and n/0 gives inf, as numpy does without raising
float_div(a, b) ==
    IF a = FloatNaN \/ b = FloatNaN THEN FloatNaN
    ELSE IF b.num = 0 THEN (IF a.num = 0 THEN FloatNaN ELSE FloatInf)
    ELSE Float(a.num, b.num)

\* lines 1099-1103: counts, TOTAL and pct_tepat of a station row whose month
\* cells were normalized
df_status_counts(cells) ==
    LET tepat     == hitung(cells, TEPAT_WAKTU_TEXT)
        terlambat == hitung(cells, TERLAMBAT_TEXT)
        tidak     == hitung(cells, TIDAK_MENGIRIM_TEXT)
        total     == fillna(replace_zero_nan(Float(tepat + terlambat + tidak, 1)))
    IN  [cells          |-> cells,
         TEPAT_WAKTU    |-> tepat,
         TERLAMBAT      |-> terlambat,
         TIDAK_MENGIRIM |-> tidak,
         TOTAL          |-> total,
         pct_tepat      |-> fillna(float_div(Float(tepat, 1), total))]

\* lines 1288-1320: df_counts, TOTAL and pct_tepat of a station row
df_perf_counts(cells) ==
    LET tepat     == count_equal(cells, TEPAT_WAKTU_TEXT)
        terlambat == count_equal(cells, TERLAMBAT_TEXT)
        tidak     == count_equal(cells, TIDAK_MENGIRIM_TEXT)
        total     == tepat + terlambat + tidak
    IN  [cells          |-> cells,
         TEPAT_WAKTU    |-> tepat,
         TERLAMBAT      |-> terlambat,
         TIDAK_MENGIRIM |-> tidak,
         TOTAL          |-> Float(total, 1),
         pct_tepat      |-> fillna(float_div(Float(tepat, 1),
                                             replace_zero_nan(Float(total, 1))))]

\* lines 1092-1093: df_status[c].apply(norm_cell) for each month column c,
\* seen from one station row
apply_norm_cell(cells) == [i \in 1..Len(cells) |-> norm_cell(cells[i])]

\* lines 1284-1285: df_st[c].apply(norm_status_cell) for each month column
apply_norm_status_cell(cells) ==
    [i \in 1..Len(cells) |-> norm_status_cell(cells[i])]

---------------------------------------------------------------------------
(* Inputs of the matrix classifier.  pd.read_csv reads an empty field and  *)
(* the exact fields N/A and NA as NaN, so those texts reach the page only  *)
(* with surrounding blanks.                                                *)

MaxMonths == 2      \* month columns of a generated station row

MonthCells ==
    { NaNCell,
      StrCell(<<" ">>),
      StrCell(<<"-">>),
      StrCell(<<" ","N","/","A">>),
      StrCell(<<"N","A"," ">>),
      StrCell(<<"T","e","p","a","t">>),
      StrCell(<<" ","t","e","r","l","a","m","b","a","t">>),
      StrCell(<<"T","I","D","A","K"," ","M","E","N","G","I","R","I","M">>),
      StrCell(<<"t","i","d","a","k"," ","t","e","p","a","t">>),
      StrCell(<<"l","i","b","u","r"," ">>) }

---------------------------------------------------------------------------
(* Specification of the matrix classifier *)

CellInit ==
    /\ station_cells = <<>>
    /\ df_status_row = <<>>
    /\ df_perf_row = <<>>
    /\ spc = "loading"
    /\ ParserIdle /\ MonthlyIdle /\ YearlyIdle
    /\ MonthColIdle /\ TierIdle /\ PeriodIdle
    /\ PageIdle /\ MapIdle /\ LoadIdle /\ CacheIdle /\ DisplayIdle /\ PagerIdle

\* lines 218-322: one more month column of the station row is read
ReadMonthCell ==
    /\ spc = "loading"
    /\ Len(station_cells) < MaxMonths
    /\ \E x \in MonthCells : station_cells' = Append(station_cells, x)
    /\ UNCHANGED <<df_status_row, df_perf_row, spc, parserVars, monthlyVars,
                   yearlyVars, monthColVars, tierVars, periodVars,
                   pageVars, mapVars, loadVars, cacheVars, displayVars, pagerVars>>

\* lines 1071-1103: Monitoring Tahunan normalizes and counts the month cells
\* (the page stops with a warning when there is no month column)
CountMonitoring ==
    /\ spc = "loading"
    /\ station_cells # <<>>
    /\ df_status_row' = df_status_counts(apply_norm_cell(station_cells))
    /\ spc' = "monitoring"
    /\ UNCHANGED <<station_cells, df_perf_row, parserVars, monthlyVars,
                   yearlyVars, monthColVars, tierVars, periodVars,
                   pageVars, mapVars, loadVars, cacheVars, displayVars, pagerVars>>

\* lines 1265-1320: Performa Stasiun normalizes and counts the month cells
CountPerforma ==
    /\ spc = "loading"
    /\ station_cells # <<>>
    /\ df_perf_row' = df_perf_counts(apply_norm_status_cell(station_cells))
    /\ spc' = "performa"
    /\ UNCHANGED <<station_cells, df_status_row, parserVars, monthlyVars,
                   yearlyVars, monthColVars, tierVars, periodVars,
                   pageVars, mapVars, loadVars, cacheVars, displayVars, pagerVars>>

CellNext == ReadMonthCell \/ CountMonitoring \/ CountPerforma

CellSpec == CellInit /\ [][CellNext]_vars

---------------------------------------------------------------------------
(* Claims about the matrix classifier *)

CellsCounted == spc \in {"monitoring", "performa"}

\* the station row computed by the page at hand
StationRow == IF spc = "monitoring" THEN df_status_row ELSE df_perf_row

CellIds == 1..Len(station_cells)

IsNull(i) == station_cells[i].kind = "nan"

\* the text of a cell that is not null
RawText(i) == station_cells[i].str

\* the text trimmed and in upper case
Trimmed(i) == Upper(Strip(RawText(i)))

\* null, empty or whitespace only
IsBlank(i) == IsNull(i) \/ Strip(RawText(i)) = <<>>

IsDashOrNA(i) == ~IsNull(i) /\ Trimmed(i) \in { <<"-">>, <<"N","/","A">> }

HasKeyword(i, kw) == ~IsNull(i) /\ Contains(Trimmed(i), kw)

CountSum == StationRow.TEPAT_WAKTU + StationRow.TERLAMBAT + StationRow.TIDAK_MENGIRIM

\* C13: a month cell that is blank (null, empty or whitespace), '-' or 'N/A'
\* is classified TIDAK MENGIRIM and counted in the station's not-sent count,
\* on the Monitoring Tahunan and on the Performa Stasiun page.
C13_BlankIsNotSent ==
    CellsCounted =>
        /\ \A i \in CellIds :
               (IsBlank(i) \/ IsDashOrNA(i)) =>
                   StationRow.cells[i] = TIDAK_MENGIRIM_TEXT
        /\ StationRow.TIDAK_MENGIRIM >=
               Cardinality({ i \in CellIds : IsBlank(i) \/ IsDashOrNA(i) })

\* C14: every cell containing TEPAT is classified TEPAT WAKTU, every cell
\* containing TERLAMBAT is classified TERLAMBAT and every cell containing
\* TIDAK is classified TIDAK MENGIRIM, also when a cell contains more than
\* one of the keywords.
C14_EveryKeyword ==
    CellsCounted =>
        \A i \in CellIds :
            /\ HasKeyword(i, <<"T","E","P","A","T">>) => StationRow.cells[i] = TEPAT_WAKTU_TEXT
            /\ HasKeyword(i, <<"T","E","R","L","A","M","B","A","T">>) => StationRow.cells[i] = TERLAMBAT_TEXT
            /\ HasKeyword(i, <<"T","I","D","A","K">>) => StationRow.cells[i] = TIDAK_MENGIRIM_TEXT

\* C14 amended: the keywords are tried in the order TEPAT, TERLAMBAT, TIDAK
\* and the first one the trimmed, upper-cased text contains decides.
C14_KeywordPriority ==
    CellsCounted =>
        \A i \in CellIds :
            /\ HasKeyword(i, <<"T","E","P","A","T">>) => StationRow.cells[i] = TEPAT_WAKTU_TEXT
            /\ (HasKeyword(i, <<"T","E","R","L","A","M","B","A","T">>) /\ ~HasKeyword(i, <<"T","E","P","A","T">>)) =>
                   StationRow.cells[i] = TERLAMBAT_TEXT
            /\ (/\ HasKeyword(i, <<"T","I","D","A","K">>)
                /\ ~HasKeyword(i, <<"T","E","P","A","T">>)
                /\ ~HasKeyword(i, <<"T","E","R","L","A","M","B","A","T">>)) =>
                   StationRow.cells[i] = TIDAK_MENGIRIM_TEXT

\* a cell with TIDAK and TEPAT counted on time, next to a cell with TIDAK
\* alone counted not sent
C14_Witness ==
    /\ CellsCounted
    /\ \E i, j \in CellIds :
           /\ HasKeyword(i, <<"T","I","D","A","K">>) /\ HasKeyword(i, <<"T","E","P","A","T">>)
           /\ StationRow.cells[i] = TEPAT_WAKTU_TEXT
           /\ HasKeyword(j, <<"T","I","D","A","K">>) /\ ~HasKeyword(j, <<"T","E","P","A","T">>)
           /\ StationRow.cells[j] = TIDAK_MENGIRIM_TEXT
    /\ StationRow.TEPAT_WAKTU = 1
    /\ StationRow.TIDAK_MENGIRIM = 1

\* a cell that is not blank, '-' or 'N/A' and holds none of the keywords
Unrecognized(i) ==
    /\ ~IsBlank(i)
    /\ ~IsDashOrNA(i)
    /\ ~HasKeyword(i, <<"T","E","P","A","T">>)
    /\ ~HasKeyword(i, <<"T","E","R","L","A","M","B","A","T">>)
    /\ ~HasKeyword(i, <<"T","I","D","A","K">>)

\* C15: a cell that matches none of the recognized patterns is passed
\* through unmodified and contributes to none of the three counts, hence not
\* to the total.
C15_PassedThroughUnmodified ==
    CellsCounted =>
        /\ \A i \in CellIds : Unrecognized(i) => StationRow.cells[i] = RawText(i)
        /\ CountSum <= Cardinality({ i \in CellIds : ~Unrecognized(i) })

\* Performa Stasiun also recognizes the text NA
UnrecognizedOnPage(i) ==
    Unrecognized(i) /\ ~(spc = "performa" /\ Trimmed(i) = <<"N","A">>)

\* C15 amended: a cell that matches none of the patterns the page recognizes
\* (on Performa Stasiun also NA) is passed through trimmed and in upper
\* case, under no status, and contributes to none of the three counts, hence
\* not to the total.
C15_PassedThroughTrimmedUpper ==
    CellsCounted =>
        /\ \A i \in CellIds :
               UnrecognizedOnPage(i) =>
                   /\ StationRow.cells[i] = Trimmed(i)
                   /\ StationRow.cells[i] \notin
                          { TEPAT_WAKTU_TEXT, TERLAMBAT_TEXT, TIDAK_MENGIRIM_TEXT }
        /\ CountSum <= Cardinality({ i \in CellIds : ~UnrecognizedOnPage(i) })
        /\ StationRow.TOTAL = Float(CountSum, 1)

\* 'libur ' passed through as LIBUR next to a counted cell
C15_Witness ==
    /\ CellsCounted
    /\ Len(station_cells) = 2
    /\ station_cells[1] = StrCell(<<"l","i","b","u","r"," ">>)
    /\ StationRow.cells[1] = <<"L","I","B","U","R">>
    /\ StationRow.cells[2] = TERLAMBAT_TEXT
    /\ StationRow.TOTAL = Float(1, 1)

\* C16: total = on_time + late + not_sent; pct_tepat = on_time / total and
\* lies in [0,1]; pct_tepat is exactly 0, neither NaN nor inf, when total is
\* 0; on both pages.
C16_TotalAndPct ==
    CellsCounted =>
        LET r   == StationRow
            pct == r.pct_tepat
        IN  /\ r.TOTAL = Float(CountSum, 1)
            /\ pct.den > 0
            /\ 0 <= pct.num /\ pct.num <= pct.den
            /\ CountSum > 0 => pct.num * CountSum = r.TEPAT_WAKTU * pct.den
            /\ CountSum = 0 => pct = Zero

\* a station without any counted cell: total 0 and pct_tepat 0
C16_Witness ==
    /\ CellsCounted
    /\ station_cells # <<>>
    /\ CountSum = 0
    /\ StationRow.TOTAL = Zero
    /\ StationRow.pct_tepat = Zero

---------------------------------------------------------------------------
(* Marker colour of a station on the Monitoring Tahunan map *)

\* lines 1099-1103: the count columns of a df_status row with the given
\* numbers of on-time, late and not-sent months
status_totals(tepat, terlambat, tidak) ==
    LET total == fillna(replace_zero_nan(Float(tepat + terlambat + tidak, 1)))
    IN  [TEPAT_WAKTU    |-> tepat,
         TERLAMBAT      |-> terlambat,
         TIDAK_MENGIRIM |-> tidak,
         TOTAL          |-> total,
         pct_tepat      |-> fillna(float_div(Float(tepat, 1), total))]

\* pct >= n/10 for a float pct that is neither NaN nor inf
float_ge_tenths(pct, n) == 10 * pct.num >= n * pct.den

GREEN  == "#2ecc71"
YELLOW == "#f1c40f"
RED    == "#e74c3c"
BLACK  == "#000000"

\* color_hex with the first threshold exclusive
color_hex_gt(row) ==
    LET pct == row.pct_tepat
    IN  IF 10 * pct.num > 8 * pct.den THEN GREEN
        ELSE IF float_ge_tenths(pct, 3) THEN YELLOW
        ELSE IF ~float_ge_tenths(pct, 3) /\ row.TERLAMBAT > row.TIDAK_MENGIRIM THEN RED
        ELSE BLACK

\* lines 1106-1115
color_hex(row) ==
    LET pct  == row.pct_tepat
        terl == row.TERLAMBAT
        tdk  == row.TIDAK_MENGIRIM
    IN  IF float_ge_tenths(pct, 8) THEN GREEN
        ELSE IF float_ge_tenths(pct, 3) THEN YELLOW
        ELSE IF ~float_ge_tenths(pct, 3) /\ terl > tdk THEN RED
        ELSE BLACK

MaxCount == 10      \* counted months of a generated station row

\* the count triples of a station row
StationCounts ==
    { c \in (0..MaxCount) \X (0..MaxCount) \X (0..MaxCount) :
        c[1] + c[2] + c[3] <= MaxCount }

TierInit ==
    /\ \E c \in StationCounts : tier_row = status_totals(c[1], c[2], c[3])
    /\ marker_color = ""
    /\ tpc = "counted"
    /\ ParserIdle /\ MonthlyIdle /\ YearlyIdle
    /\ MonthColIdle /\ CellIdle /\ PeriodIdle
    /\ PageIdle /\ MapIdle /\ LoadIdle /\ CacheIdle /\ DisplayIdle /\ PagerIdle

\* lines 1139-1156: the marker of the station is drawn; color_hex is called
\* for the outline and again for the fill
DrawMarker ==
    /\ tpc = "counted"
    /\ marker_color' = [color |-> color_hex(tier_row), fill_color |-> color_hex(tier_row)]
    /\ tpc' = "drawn"
    /\ UNCHANGED <<tier_row, parserVars, monthlyVars, yearlyVars, monthColVars,
                   cellVars, periodVars,
                   pageVars, mapVars, loadVars, cacheVars, displayVars, pagerVars>>

TierNext == DrawMarker

TierSpec == TierInit /\ [][TierNext]_vars

---------------------------------------------------------------------------
(* Claims about the marker colour *)

Drawn == tpc = "drawn"

TierTotal == tier_row.TEPAT_WAKTU + tier_row.TERLAMBAT + tier_row.TIDAK_MENGIRIM

\* on_time / total >= n/10, with the quotient taken as 0 when total is 0
PctAtLeast(n) == TierTotal > 0 /\ 10 * tier_row.TEPAT_WAKTU >= n * TierTotal

\* C17: color_hex is a total strict priority chain: green when
\* pct >= 0.8, yellow when 0.3 <= pct < 0.8, red when pct < 0.3 and
\* late > not_sent, black otherwise (late = not_sent and the all-zero station
\* included); evaluating it again on the same row gives the same tier.
C17_TierChain ==
    Drawn =>
        /\ marker_color.color \in {GREEN, YELLOW, RED, BLACK}
        /\ marker_color.color = GREEN <=> PctAtLeast(8)
        /\ marker_color.color = YELLOW <=> (PctAtLeast(3) /\ ~PctAtLeast(8))
        /\ marker_color.color = RED <=>
               (~PctAtLeast(3) /\ tier_row.TERLAMBAT > tier_row.TIDAK_MENGIRIM)
        /\ marker_color.color = BLACK <=>
               (~PctAtLeast(3) /\ tier_row.TERLAMBAT <= tier_row.TIDAK_MENGIRIM)
        /\ marker_color.fill_color = marker_color.color

\* a station with exactly 80 % on time drawn green
C17_Witness ==
    /\ Drawn
    /\ tier_row.TEPAT_WAKTU = 4
    /\ tier_row.TERLAMBAT = 1
    /\ tier_row.TIDAK_MENGIRIM = 0
    /\ marker_color.color = GREEN

---------------------------------------------------------------------------
(* Per-month aggregate of Monitoring Tahunan (df_bulan) *)

\* line 1187: next((c for c in bulan_cols if <prefix match>), None); the
\* headers were cleaned before
RECURSIVE next_bulan_col(_, _, _)
next_bulan_col(cols, k, i) ==
    IF i > Len(cols) THEN NoCol
    ELSE IF Lower(Prefix3(Strip(cols[i]))) = month_code(k) THEN cols[i]
    ELSE next_bulan_col(cols, k, i + 1)

\* lines 1183-1187: the column df_bulan reads for month k
bulan_col_of(cols, k) ==
    IF InSeq(MONTH_ABBR[k], cols) THEN MONTH_ABBR[k]
    ELSE next_bulan_col(cols, k, 1)

\* position of a header in the header row
col_index(columns, c) == CHOOSE i \in 1..Len(columns) : columns[i] = c

\* lines 1189-1191: (df_status[col].str.upper() == kata).sum()
column_count(sheet, col, kata) ==
    LET i == col_index(sheet.columns, col)
    IN  Cardinality({ r \in 1..Len(sheet.rows) : Upper(sheet.rows[r][i]) = kata })

\* 100*n/total if total > 0 else 0
percent(n, total) == IF total > 0 THEN Float(100 * n, total) ELSE Zero

\* lines 1184-1203: the row of month k
df_bulan_row(sheet, cols, k) ==
    LET col == bulan_col_of(cols, k)
    IN  IF col # NoCol /\ col # <<>>
        THEN LET tepat     == column_count(sheet, col, TEPAT_WAKTU_TEXT)
                 terlambat == column_count(sheet, col, TERLAMBAT_TEXT)
                 tidak     == column_count(sheet, col, TIDAK_MENGIRIM_TEXT)
                 total     == tepat + terlambat + tidak
             IN  [Bulan          |-> MONTH_ABBR[k],
                  Tepat_Waktu    |-> percent(tepat, total),
                  Terlambat      |-> percent(terlambat, total),
                  Tidak_Mengirim |-> percent(tidak, total)]
        ELSE [Bulan          |-> MONTH_ABBR[k],
              Tepat_Waktu    |-> Zero,
              Terlambat      |-> Zero,
              Tidak_Mengirim |-> Zero]

\* an aggregate that lists only the months found in the sheet
df_bulan_rows_found_only(sheet, cols) ==
    SelectSeq([k \in 1..Len(MONTH_ABBR) |-> df_bulan_row(sheet, cols, k)],
              LAMBDA row : bulan_col_of(cols, CHOOSE k \in 1..Len(MONTH_ABBR) :
                                                  MONTH_ABBR[k] = row.Bulan) # NoCol)

\* lines 1183-1205: df_bulan_rows, one row per entry of MONTH_ABBR
df_bulan_rows(sheet, cols) ==
    [k \in 1..Len(MONTH_ABBR) |-> df_bulan_row(sheet, cols, k)]

\* lines 1092-1093: the month columns of the sheet normalized by norm_cell;
\* the other columns do not enter the aggregate
normalize_month_columns(sheet, cols) ==
    [columns |-> sheet.columns,
     rows    |-> [r \in 1..Len(sheet.rows) |->
                     [i \in 1..Len(sheet.columns) |->
                         IF InSeq(sheet.columns[i], cols)
                         THEN norm_cell(sheet.rows[r][i])
                         ELSE str_of(sheet.rows[r][i])]]]

---------------------------------------------------------------------------
(* Inputs of the per-month aggregate *)

MaxStations == 2    \* station rows of a generated status sheet

\* seconds of application time that are followed
MaxClock == 600

\* station rows of a generated df_perf
MaxItems == 25

PeriodHeaderRows ==
    { << <<"J","a","n">> >>,
      << <<"D","e","s","_","2","0","2","4">>, <<" ","j","a","n"," ","2","4">> >>,
      << <<"x","_","j","a","n">> >>,
      << <<"s","t","a","t","u","s","_","f","e","b">>, <<"m","a","r","_","x">> >>,
      << <<"r","_","d","e","s">>, <<"y","_","J","A","N">> >> }

PeriodCells ==
    { StrCell(<<"T","e","p","a","t">>), StrCell(<<" ","t","e","r","l","a","m","b","a","t">>), StrCell(<<"T","I","D","A","K"," ","M","E","N","G","I","R","I","M">>) }

---------------------------------------------------------------------------
(* Specification of the per-month aggregate.  status_sheet holds the       *)
(* columns of the status sheet other than the station and coordinate       *)
(* columns.                                                                *)

PeriodInit ==
    /\ \E h \in PeriodHeaderRows : status_sheet = [columns |-> h, rows |-> <<>>]
    /\ df_bulan = <<>>
    /\ bpc = "loading"
    /\ ParserIdle /\ MonthlyIdle /\ YearlyIdle
    /\ MonthColIdle /\ CellIdle /\ TierIdle
    /\ PageIdle /\ MapIdle /\ LoadIdle /\ CacheIdle /\ DisplayIdle /\ PagerIdle

\* lines 218-322: one more station row is read
ReadStation ==
    /\ bpc = "loading"
    /\ Len(status_sheet.rows) < MaxStations
    /\ \E row \in [1..Len(status_sheet.columns) -> PeriodCells] :
           status_sheet' = [status_sheet EXCEPT !.rows = Append(@, row)]
    /\ UNCHANGED <<df_bulan, bpc, parserVars, monthlyVars, yearlyVars,
                   monthColVars, cellVars, tierVars,
                   pageVars, mapVars, loadVars, cacheVars, displayVars, pagerVars>>

\* lines 1029-1205: Monitoring Tahunan cleans the headers, resolves the
\* month columns, normalizes their cells and builds df_bulan; an empty sheet
\* and a sheet without month columns end in a message instead
BuildDfBulan ==
    /\ bpc = "loading"
    /\ status_sheet.rows # <<>>
    /\ LET columns == clean_columns(status_sheet.columns)
           cols    == resolve_bulan_cols(columns)
           sheet   == normalize_month_columns(
                          [columns |-> columns, rows |-> status_sheet.rows], cols)
       IN  /\ cols # <<>>
           /\ df_bulan' = df_bulan_rows(sheet, cols)
    /\ bpc' = "aggregated"
    /\ UNCHANGED <<status_sheet, parserVars, monthlyVars, yearlyVars,
                   monthColVars, cellVars, tierVars,
                   pageVars, mapVars, loadVars, cacheVars, displayVars, pagerVars>>

PeriodNext == ReadStation \/ BuildDfBulan

PeriodSpec == PeriodInit /\ [][PeriodNext]_vars

---------------------------------------------------------------------------
(* Claims about the per-month aggregate *)

Aggregated == bpc = "aggregated"

SheetColumns == clean_columns(status_sheet.columns)

\* the month columns the column resolver resolved
SheetMonthCols == resolve_bulan_cols(SheetColumns)

\* no header of the sheet holds the code of month k
MonthMissing(k) ==
    \A i \in 1..Len(SheetColumns) :
        ~Contains(Lower(SheetColumns[i]), Lower(MONTH_ABBR[k]))

\* C18: the per-period aggregate has exactly 12 rows, one per canonical
\* month in the order Jan..Des, whatever months the source contains; a month
\* with no column in the source has 0 for all three percentages.
C18_TwelveRows ==
    Aggregated =>
        /\ Len(df_bulan) = 12
        /\ \A k \in 1..12 :
               /\ df_bulan[k].Bulan = MONTH_ABBR[k]
               /\ MonthMissing(k) =>
                      /\ df_bulan[k].Tepat_Waktu = Zero
                      /\ df_bulan[k].Terlambat = Zero
                      /\ df_bulan[k].Tidak_Mengirim = Zero

\* a sheet with the columns Des_2024 and jan 24 only: twelve rows, Jan and
\* Des filled, Feb zero
C18_Witness ==
    /\ Aggregated
    /\ status_sheet.columns = << <<"D","e","s","_","2","0","2","4">>, <<" ","j","a","n"," ","2","4">> >>
    /\ Len(df_bulan) = 12
    /\ df_bulan[1].Tepat_Waktu # Zero
    /\ df_bulan[12].Terlambat # Zero
    /\ df_bulan[2].Tepat_Waktu = Zero

\* the resolved columns of month k: by prefix when the strict resolution
\* found columns, by substring in the fallback
ResolvedFor(k) ==
    { n \in 1..Len(SheetMonthCols) :
        IF detect_month_columns(SheetColumns) # <<>>
        THEN Lower(Prefix3(Strip(SheetMonthCols[n]))) = Lower(MONTH_ABBR[k])
        ELSE Contains(Lower(SheetMonthCols[n]), Lower(MONTH_ABBR[k])) }

\* the first resolved column of month k
FirstResolvedFor(k) ==
    CHOOSE n \in ResolvedFor(k) : \A other \in ResolvedFor(k) : n <= other

\* stations whose cell in the n-th resolved column has the given status
StationsWith(n, status) ==
    LET i == CHOOSE j \in 1..Len(SheetColumns) : SheetColumns[j] = SheetMonthCols[n]
    IN  Cardinality({ r \in 1..Len(status_sheet.rows) :
                        norm_cell(status_sheet.rows[r][i]) = status })

\* f = 100 * n / total
IsPercent(f, n, total) == f.den > 0 /\ f.num * total = 100 * n * f.den

\* C19: for every month whose column was resolved, by strict prefix or by
\* the substring fallback, the per-period row holds 100*count/total for
\* on-time, late and not-sent, counted over all stations in the month's
\* resolved column; the three sum to 100 when total > 0 and are 0 when
\* total is 0.
C19_ResolvedMonthPercent ==
    Aggregated =>
        \A k \in 1..12 :
            ResolvedFor(k) # {}
                => LET n         == FirstResolvedFor(k)
                       tepat     == StationsWith(n, TEPAT_WAKTU_TEXT)
                       terlambat == StationsWith(n, TERLAMBAT_TEXT)
                       tidak     == StationsWith(n, TIDAK_MENGIRIM_TEXT)
                       total     == tepat + terlambat + tidak
                       row       == df_bulan[k]
                   IN  IF total > 0
                       THEN /\ IsPercent(row.Tepat_Waktu, tepat, total)
                            /\ IsPercent(row.Terlambat, terlambat, total)
                            /\ IsPercent(row.Tidak_Mengirim, tidak, total)
                       ELSE /\ row.Tepat_Waktu = Zero
                            /\ row.Terlambat = Zero
                            /\ row.Tidak_Mengirim = Zero

\* what the code does: the row of a month is filled only from a resolved
\* column named exactly as the month or starting with its code
C19_PrefixColumnsOnly ==
    Aggregated =>
        \A k \in 1..12 :
            (\A n \in 1..Len(SheetMonthCols) :
                 Lower(Prefix3(Strip(SheetMonthCols[n]))) # Lower(MONTH_ABBR[k]))
            => /\ df_bulan[k].Tepat_Waktu = Zero
               /\ df_bulan[k].Terlambat = Zero
               /\ df_bulan[k].Tidak_Mengirim = Zero

---------------------------------------------------------------------------
(* Claims about tables of the monthly sheet that lack a column *)

MonthlyCols == df_monthly.cols

\* the sent flag of a record of a table that has the column
SentFlag(i) == to_bool(df_monthly.rows[i].terkirim)

\* the status a sent record that is not on-time gets from its delta
StatusByDelta(i) ==
    IF HasNumericDelta(i)
    THEN (IF DeltaTenths(i) > 0 THEN ON_TIME ELSE LATE)
    ELSE ON_TIME

\* C20: when 'terkirim', 'tepat_waktu' or 'time_diff_hours_num' is absent,
\* normalize_monthly_df still gives every record a status, taking the absent
\* flag as false and the absent delta as null: without 'terkirim' every
\* record is TIDAK MENGIRIM, without 'tepat_waktu' a sent record is
\* classified by its delta, and without the delta column a sent record is
\* TEPAT WAKTU.
C20_AbsentColumns ==
    Normalized =>
        /\ Len(df_monthly_norm) = Len(df_monthly.rows)
        /\ \A i \in RowIds : StatusOf(i) \in {ON_TIME, LATE, NOT_SENT}
        /\ C_terkirim \notin MonthlyCols =>
               \A i \in RowIds : StatusOf(i) = NOT_SENT
        /\ (C_terkirim \in MonthlyCols /\ C_tepat \notin MonthlyCols) =>
               \A i \in RowIds : SentFlag(i) => StatusOf(i) = StatusByDelta(i)
        /\ (C_terkirim \in MonthlyCols /\ C_delta \notin MonthlyCols) =>
               \A i \in RowIds : SentFlag(i) => StatusOf(i) = ON_TIME

\* a table without 'terkirim' whose record is flagged on-time and carries a
\* positive delta: classified TIDAK MENGIRIM
C20_Witness ==
    /\ Normalized
    /\ MonthlyCols = {C_tepat, C_delta}
    /\ \E i \in RowIds :
           /\ to_bool(df_monthly.rows[i].tepat_waktu)
           /\ HasNumericDelta(i) /\ DeltaTenths(i) > 0
           /\ StatusOf(i) = NOT_SENT

---------------------------------------------------------------------------
(* The two yearly pages as a whole: which message they show and which      *)
(* aggregates they compute                                                 *)

\* line 1056: df_status.rename(columns={lat_col: 'LAT', lon_col: 'LON'})
rename_coordinates(cols, lat, lon) ==
    [i \in 1..Len(cols) |->
        IF cols[i] = lat THEN <<"L","A","T">>
        ELSE IF cols[i] = lon THEN <<"L","O","N">>
        ELSE cols[i]]

\* df.empty: no column or no row
df_empty(sheet) == sheet.columns = <<>> \/ ~sheet.has_rows

PageResult(message, stations, bulan) ==
    [message |-> message, stations |-> stations, df_bulan |-> bulan]

\* Monitoring Tahunan without the test of bulan_cols
monitoring_page_no_month_check(sheet) ==
    IF df_empty(sheet) THEN PageResult("info_empty", FALSE, FALSE)
    ELSE LET cols == clean_columns(sheet.columns)
         IN  IF detect_lat_col(cols) = NoCol \/ detect_lon_col(cols) = NoCol
             THEN PageResult("warning_coordinates", FALSE, FALSE)
             ELSE PageResult("rendered", TRUE, TRUE)

\* lines 1029-1205: Monitoring Tahunan; stations stands for the count columns
\* and the map (lines 1075-1174), df_bulan for the per-month aggregate and
\* its charts (lines 1176-1233)
monitoring_page(sheet) ==
    IF df_empty(sheet) THEN PageResult("info_empty", FALSE, FALSE)
    ELSE LET cols == clean_columns(sheet.columns)
             lat  == detect_lat_col(cols)
             lon  == detect_lon_col(cols)
         IN  IF lat = NoCol \/ lon = NoCol \/ lat = <<>> \/ lon = <<>>
             THEN PageResult("warning_coordinates", FALSE, FALSE)
             ELSE IF resolve_bulan_cols(rename_coordinates(cols, lat, lon)) = <<>>
                  THEN PageResult("warning_months", FALSE, FALSE)
                  ELSE PageResult("rendered", TRUE, TRUE)

\* lines 1238-1320: Performa Stasiun up to the station counts; st.stop() ends
\* the run after the warning
performa_page(sheet) ==
    IF df_empty(sheet) THEN PageResult("info_empty", FALSE, FALSE)
    ELSE IF resolve_month_cols(clean_columns(sheet.columns)) = <<>>
         THEN PageResult("warning_months", FALSE, FALSE)
         ELSE PageResult("rendered", TRUE, FALSE)

---------------------------------------------------------------------------
(* Inputs of the yearly pages *)

PageHeaderPool ==
    { <<"L","a","t">>, <<"l","o","n">>, <<"L","N","G"," ">>, <<"l","a","t","_","j","a","n">>, <<"s","t","a","t","i","o","n">>,
      <<"J","a","n">>, <<"D","e","s","_","2","0","2","4">>, <<"x","_","f","e","b">> }

RECURSIVE PageHeaderSeqs(_)
PageHeaderSeqs(n) ==
    IF n = 0 THEN { <<>> }
    ELSE LET shorter == PageHeaderSeqs(n - 1)
         IN  shorter \cup
             { Append(r, h) : r \in { q \in shorter : Len(q) = n - 1 },
                              h \in PageHeaderPool }

\* status sheets: rows of distinct headers, with or without station rows; a
\* sheet that was not loaded has neither columns nor rows
PageSheets ==
    { [columns |-> r, has_rows |-> b] :
        r \in { q \in PageHeaderSeqs(MaxCols) :
                  \A i, j \in 1..Len(q) : i # j => q[i] # q[j] },
        b \in BOOLEAN } \ { [columns |-> <<>>, has_rows |-> TRUE] }

---------------------------------------------------------------------------
(* Specification of the yearly pages *)

PageInit ==
    /\ page_sheet \in PageSheets
    /\ page_result = <<>>
    /\ gpc = "loaded"
    /\ PipelineIdle
    /\ MapIdle /\ LoadIdle /\ CacheIdle /\ DisplayIdle /\ PagerIdle

\* lines 1025-1233: the sub-page Monitoring Tahunan is rendered
RenderMonitoringTahunan ==
    /\ gpc = "loaded"
    /\ page_result' = monitoring_page(page_sheet)
    /\ gpc' = "monitoring"
    /\ UNCHANGED <<page_sheet, pipelineVars, mapVars, loadVars, cacheVars,
                   displayVars, pagerVars>>

\* lines 1238-1320: the sub-page Performa Stasiun is rendered
RenderPerformaStasiun ==
    /\ gpc = "loaded"
    /\ page_result' = performa_page(page_sheet)
    /\ gpc' = "performa"
    /\ UNCHANGED <<page_sheet, pipelineVars, mapVars, loadVars, cacheVars,
                   displayVars, pagerVars>>

PageNext == RenderMonitoringTahunan \/ RenderPerformaStasiun

PageSpec == PageInit /\ [][PageNext]_vars

---------------------------------------------------------------------------
(* Claims about the yearly pages *)

PageRendered == gpc \in {"monitoring", "performa"}

PageHeaders == clean_columns(page_sheet.columns)

\* no header can serve as the latitude, or none as the longitude column
NoCoordinateColumn ==
    \/ \A i \in 1..Len(PageHeaders) : ~is_lat_header(PageHeaders[i])
    \/ \A i \in 1..Len(PageHeaders) : ~is_lon_header(PageHeaders[i])

\* no header holds a month code, at its start or anywhere else
NoMonthColumn ==
    \A i \in 1..Len(PageHeaders), k \in 1..Len(MONTH_ABBR) :
        ~Contains(Lower(PageHeaders[i]), Lower(MONTH_ABBR[k]))

InsufficientData ==
    /\ page_result.message \in {"warning_coordinates", "warning_months"}
    /\ ~page_result.stations
    /\ ~page_result.df_bulan

\* C21: a status table without a resolvable latitude/longitude column (on
\* Monitoring Tahunan, the page that needs the coordinates) or without any
\* resolvable month column (on both pages) ends in a warning, and neither
\* the per-station nor the per-period aggregate is computed from it.
C21_InsufficientDataWarning ==
    (PageRendered /\ ~df_empty(page_sheet)) =>
        /\ (gpc = "monitoring" /\ NoCoordinateColumn) => InsufficientData
        /\ NoMonthColumn => InsufficientData

\* Monitoring Tahunan of a sheet with both coordinate columns and no month
\* column: the month warning, nothing computed
C21_Witness ==
    /\ gpc = "monitoring"
    /\ page_sheet = [columns |-> << <<"L","a","t">>, <<"l","o","n">>, <<"s","t","a","t","i","o","n">> >>, has_rows |-> TRUE]
    /\ page_result = PageResult("warning_months", FALSE, FALSE)


\* the claim as stated: either page, either kind of missing column
C21_AnyPageAnyColumn ==
    (PageRendered /\ ~df_empty(page_sheet)) =>
        ((NoCoordinateColumn \/ NoMonthColumn) => InsufficientData)

---------------------------------------------------------------------------
(* The marker loops of the monthly and the yearly map *)

\* a coordinate as the loops hold it: a float in tenths, or NaN
Coord(n) == [nan |-> FALSE, val |-> n]
CoordNaN == [nan |-> TRUE, val |-> 0]

\* lines 648-649: float(r['LAT']); float(NaN) is NaN and raises nothing,
\* text that is not a number raises ValueError (ok = FALSE)
map_float(v) ==
    IF cell_isna(v) THEN [ok |-> TRUE, coord |-> CoordNaN]
    ELSE LET f == float_of(v)
         IN  [ok |-> f.ok, coord |-> Coord(f.val)]

\* lines 1053-1054: pd.to_numeric(col.astype(str).str.replace(',', '.'),
\* errors='coerce'); a missing cell becomes the text 'nan', which is NaN
coerce_coordinate(v) ==
    IF cell_isna(v) THEN CoordNaN
    ELSE LET f == parse_float(Replace(str_of(v), <<",">>, <<".">>))
         IN  IF f.ok THEN Coord(f.val) ELSE CoordNaN

\* one call of folium.CircleMarker: the record and the location passed
Marker(i, lat, lon) == [row |-> i, lat |-> lat, lon |-> lon]

\* lines 646-674: the loop over df_map.iterrows() of the monthly map
RECURSIVE monthly_markers(_, _, _)
monthly_markers(rows, i, acc) ==
    IF i > Len(rows) THEN acc
    ELSE LET lat == map_float(rows[i].LAT)
             lon == map_float(rows[i].LON)
         IN  IF Len(acc) <= Len(rows) /\ lat.ok /\ lon.ok
             THEN monthly_markers(rows, i + 1,
                                  Append(acc, Marker(i, lat.coord, lon.coord)))
             ELSE monthly_markers(rows, i + 1, acc)

\* lines 1053-1054 and 1139-1156: the coercion of the coordinate columns and
\* the loop over df_status.iterrows() of the yearly map
RECURSIVE yearly_markers(_, _, _)
yearly_markers(rows, i, acc) ==
    IF i > Len(rows) THEN acc
    ELSE LET lat == coerce_coordinate(rows[i].LAT)
             lon == coerce_coordinate(rows[i].LON)
         IN  IF Len(acc) > Len(rows) \/ lat.nan \/ lon.nan
             THEN yearly_markers(rows, i + 1, acc)
             ELSE yearly_markers(rows, i + 1, Append(acc, Marker(i, lat, lon)))

---------------------------------------------------------------------------
(* Inputs of the maps *)

\* coordinate cells as read_csv gives them: missing, a number, or text
CoordinateCells ==
    { NaNCell, FloatCell(1), StrCell(<<"-","7",".","5">>), StrCell(<<"1",",","5">>),
      StrCell(<<"a","b","c">>) }

MapRecords == [LAT : CoordinateCells, LON : CoordinateCells]

---------------------------------------------------------------------------
(* Specification of the maps *)

MapInit ==
    /\ map_rows = <<>>
    /\ map_markers = <<>>
    /\ kpc = "loading"
    /\ PipelineIdle
    /\ PageIdle /\ LoadIdle /\ CacheIdle /\ DisplayIdle /\ PagerIdle

\* one more record of the table the map is drawn from
ReadMapRecord ==
    /\ kpc = "loading"
    /\ Len(map_rows) < MaxRows
    /\ \E r \in MapRecords : map_rows' = Append(map_rows, r)
    /\ UNCHANGED <<map_markers, kpc, pipelineVars, pageVars, loadVars,
                   cacheVars, displayVars, pagerVars>>

\* lines 599-674: the map of the monthly page, drawn when df_monthly_norm is
\* not empty and has the columns LAT, LON and status
DrawMonthlyMap ==
    /\ kpc = "loading"
    /\ map_rows # <<>>
    /\ map_markers' = monthly_markers(map_rows, 1, <<>>)
    /\ kpc' = "monthly"
    /\ UNCHANGED <<map_rows, pipelineVars, pageVars, loadVars, cacheVars,
                   displayVars, pagerVars>>

\* lines 1053-1056 and 1116-1156: the map of Monitoring Tahunan, drawn when
\* df_status is not empty and has coordinate and month columns
DrawYearlyMap ==
    /\ kpc = "loading"
    /\ map_rows # <<>>
    /\ map_markers' = yearly_markers(map_rows, 1, <<>>)
    /\ kpc' = "yearly"
    /\ UNCHANGED <<map_rows, pipelineVars, pageVars, loadVars, cacheVars,
                   displayVars, pagerVars>>

MapNext == ReadMapRecord \/ DrawMonthlyMap \/ DrawYearlyMap

MapSpec == MapInit /\ [][MapNext]_vars

---------------------------------------------------------------------------
(* Claims about the maps *)

MapDrawn == kpc \in {"monthly", "yearly"}

MarkerIds == 1..Len(map_markers)

\* the record marker m was created for
MarkerRecord(m) == map_rows[map_markers[m].row]

\* C22: in both marker loops no marker is created for a record whose
\* latitude or longitude is missing (null/NaN), and the location passed to
\* the map is never NaN.
C22_NoMarkerWithoutCoordinates ==
    MapDrawn =>
        \A m \in MarkerIds :
            /\ ~cell_isna(MarkerRecord(m).LAT)
            /\ ~cell_isna(MarkerRecord(m).LON)
            /\ ~map_markers[m].lat.nan
            /\ ~map_markers[m].lon.nan

\* the yearly loop alone keeps the rule: markers exactly for the records
\* whose two coordinates are numbers after the coercion
YearlyMarkersValid ==
    kpc = "yearly" =>
        /\ \A m \in MarkerIds :
              ~map_markers[m].lat.nan /\ ~map_markers[m].lon.nan
        /\ \A i \in 1..Len(map_rows) :
              (~coerce_coordinate(map_rows[i].LAT).nan
                 /\ ~coerce_coordinate(map_rows[i].LON).nan)
              => \E m \in MarkerIds : map_markers[m].row = i

\* the monthly loop skips text that is not a number and goes on with the
\* records after it
MonthlySkipsUnparseable ==
    kpc = "monthly" =>
        \A m \in MarkerIds :
            float_of(MarkerRecord(m).LAT).ok \/ cell_isna(MarkerRecord(m).LAT)

---------------------------------------------------------------------------
(* Claims about the records of the monthly table *)

\* rows i and j belong to the same station
SameStation(i, j) ==
    /\ df_monthly.rows[i].station_name = df_monthly.rows[j].station_name
    /\ df_monthly.rows[i].wmoid = df_monthly.rows[j].wmoid

\* C23: normalize_monthly_df gives one classified record per input row, in
\* input order: record i carries the identity and the cells of input row i
\* and one of the three statuses, also when rows share station_name and
\* wmoid, so there are as many records as input rows.
C23_OneRecordPerRow ==
    Normalized =>
        /\ Len(df_monthly_norm) = Len(df_monthly.rows)
        /\ \A i \in 1..Len(df_monthly_norm) :
              /\ i \in RowIds
              /\ df_monthly_norm[i].station_name = df_monthly.rows[i].station_name
              /\ df_monthly_norm[i].wmoid = df_monthly.rows[i].wmoid
              /\ df_monthly_norm[i].terkirim = df_monthly.rows[i].terkirim
              /\ df_monthly_norm[i].tepat_waktu = df_monthly.rows[i].tepat_waktu
              /\ df_monthly_norm[i].time_diff_hours_num
                    = df_monthly.rows[i].time_diff_hours_num
              /\ StatusOf(i) \in {ON_TIME, LATE, NOT_SENT}

\* two rows of one station with different sent flags, both kept, in order
C23_Witness ==
    /\ Normalized
    /\ Len(df_monthly.rows) = 2
    /\ SameStation(1, 2)
    /\ Sent(1) /\ ~Sent(2)
    /\ Len(df_monthly_norm) = 2
    /\ StatusOf(1) # NOT_SENT /\ StatusOf(2) = NOT_SENT

---------------------------------------------------------------------------
(* load_all_data: explicit gids, gid discovery and sheet classification *)

\* a gid the caller did not give (None or '')
NoGid == <<>>

\* pd.DataFrame()
EmptyDF == [gid |-> NoGid, columns |-> <<>>, rows |-> <<>>]

\* the frame read from the worksheet gid
LoadedDF(gid, sheet) == [gid |-> gid, columns |-> sheet.columns, rows |-> sheet.rows]

\* df.empty of a loaded frame
frame_empty(df) == df.columns = <<>> \/ df.rows = <<>>

\* line 124
FallbackGids == << <<"0">>, <<"1","7","2","0","2","7","7","0","5">>, <<"1","4","9","3","2","9","8","4","0","9">> >>

\* line 128: sorted(list(gids), key=lambda x: int(x))
RECURSIVE sorted_gids(_)
sorted_gids(gids) ==
    IF gids = {} THEN <<>>
    ELSE LET least == CHOOSE g \in gids : \A h \in gids : ToInt(g) <= ToInt(h)
         IN  <<least>> \o sorted_gids(gids \ {least})

\* lines 82-129: the gids scraped from the two pages (every failure is
\* caught), the three fallback gids when none was found
discover_gids_for_sheet(found) ==
    IF found = {}
    THEN sorted_gids({ FallbackGids[i] : i \in 1..Len(FallbackGids) })
    ELSE sorted_gids(found)

\* str(c).strip()[:3].lower() in ['jan', ..., 'des']
is_month_like(c) == \E k \in 1..Len(MONTH_ABBR) : month_prefix_match(c, k)

DurationWords == { <<"h","a","r","i">>, <<"j","a","m">>, <<"m","n","t">>, <<"d","t","k">>, <<"d","e","t","i","k">> }
StatusWords   == { <<"t","e","p","a","t">>, <<"t","e","r","l","a","m","b","a","t">>, <<"t","i","d","a","k">> }

has_word(val, words) == \E w \in words : Contains(Lower(val), w)

\* lines 256-261 and 305-310: the first non-null cell, as text, of the first
\* month-like column that has one; NaN when there is none
RECURSIVE sample_val(_, _)
sample_val(sheet, c) ==
    IF c > Len(sheet.columns) THEN NaN
    ELSE IF is_month_like(sheet.columns[c])
            /\ \E r \in 1..Len(sheet.rows) : ~cell_isna(sheet.rows[r][c])
         THEN LET first == CHOOSE r \in 1..Len(sheet.rows) :
                              /\ ~cell_isna(sheet.rows[r][c])
                              /\ \A q \in 1..(r - 1) : cell_isna(sheet.rows[q][c])
              IN  str_of(sheet.rows[first][c])
         ELSE sample_val(sheet, c + 1)

NoClass == "None"

\* lines 243-271: try_load_and_classify, for a sheet that was fetched
classify(sheet) ==
    LET cols == { Lower(Strip(sheet.columns[i])) : i \in 1..Len(sheet.columns) }
        month_like == \E i \in 1..Len(sheet.columns) : is_month_like(sheet.columns[i])
        sample == sample_val(sheet, 1)
    IN  IF ({ <<"t","e","p","a","t","_","w","a","k","t","u">>, <<"t","e","r","l","a","m","b","a","t">>, <<"t","i","d","a","k","_","m","e","n","g","i","r","i","m">> } \cap cols # {})
           /\ <<"b","u","l","a","n">> \in cols
        THEN "monthlysummary"
        ELSE IF ({ <<"s","t","a","t","i","o","n","_","n","a","m","e">>, <<"n","a","m","a"," ","s","t","a","s","i","u","n">>, <<"s","t","a","s","i","u","n">> } \cap cols # {})
                /\ month_like
        THEN (IF sample # NaN /\ has_word(sample, StatusWords) THEN "status"
              ELSE IF sample # NaN /\ has_word(sample, DurationWords) THEN "deltahours"
              ELSE "status")
        ELSE IF <<"b","u","l","a","n">> \in cols /\ \E c \in cols : Contains(c, <<"t","e","p","a","t">>)
        THEN "monthlysummary"
        ELSE NoClass

\* lines 300-312: the fallback test of a sheet for durations
looks_like_durations(sheet) ==
    LET cols_lower == { Lower(sheet.columns[i]) : i \in 1..Len(sheet.columns) }
        month_like == \E i \in 1..Len(sheet.columns) : is_month_like(sheet.columns[i])
        sample == sample_val(sheet, 1)
    IN  /\ <<"s","t","a","t","i","o","n","_","n","a","m","e">> \in cols_lower
        /\ month_like
        /\ sample # NaN /\ sample # <<>>
        /\ has_word(sample, DurationWords)

Targets == {"deltahours", "status", "monthlysummary"}

\* lines 233-240: the gid given for a target, NoGid when none was given
provided(env) ==
    [deltahours     |-> env.delta_gid,
     status         |-> env.status_gid,
     monthlysummary |-> env.monthly_summary_gid]

\* lines 273-279: the frames of the targets after the given gids were
\* loaded; a failed fetch leaves an empty frame
load_provided(env) ==
    [t \in Targets |->
        LET gid == provided(env)[t]
        IN  IF gid = NoGid \/ ~env.sheets[gid].ok THEN EmptyDF
            ELSE LoadedDF(gid, env.sheets[gid])]

\* line 282
needed_targets(out) == { t \in Targets : frame_empty(out[t]) }

\* lines 284-287
discovered_gids(env) ==
    LET discovered == discover_gids_for_sheet(env.found)
    IN  IF env.base_gid # NoGid /\ ~InSeq(env.base_gid, discovered)
        THEN <<env.base_gid>> \o discovered
        ELSE discovered

\* the state of the discovery loop: the frames, the targets still needed,
\* the gids tried, the fetches made (with the targets needed at that time)
\* and the exception that ended it, if any
LoopState(out, needed, tried, fetched, raised) ==
    [out |-> out, needed |-> needed, tried |-> tried, fetched |-> fetched,
     raised |-> raised]

\* lines 299-314: the else branch; after a failed fetch df_try is None and
\* df_try.columns raises AttributeError
else_branch(st, sheet, gid) ==
    IF ~frame_empty(st.out["deltahours"]) THEN st
    ELSE IF ~sheet.ok THEN [st EXCEPT !.raised = "AttributeError"]
    ELSE IF looks_like_durations(sheet)
         THEN [st EXCEPT !.out["deltahours"] = LoadedDF(gid, sheet),
                         !.needed = @ \ {"deltahours"}]
         ELSE st

\* the test of line 296 without the test for an empty frame
may_assign_always(st, cls) == cls # NoClass

\* line 296: cls and (out.get(cls) is None or out.get(cls).empty)
may_assign(st, cls) == cls # NoClass /\ frame_empty(st.out[cls])

\* lines 289-314: the loop over the discovered gids, from position i on
RECURSIVE discover_loop(_, _, _, _)
discover_loop(env, discovered, i, st) ==
    IF st.raised # "" \/ i > Len(discovered) \/ st.needed = {} THEN st
    ELSE LET gid == discovered[i]
         IN  IF gid \in st.tried THEN discover_loop(env, discovered, i + 1, st)
             ELSE LET sheet == env.sheets[gid]
                      cls   == IF sheet.ok THEN classify(sheet) ELSE NoClass
                      st1   == [st EXCEPT !.tried = @ \cup {gid},
                                          !.fetched = Append(@, [gid |-> gid,
                                                                 needed |-> st.needed])]
                  IN  IF may_assign(st, cls)
                      THEN discover_loop(env, discovered, i + 1,
                              [st1 EXCEPT !.out[cls] = LoadedDF(gid, sheet),
                                          !.needed = @ \ {cls}])
                      ELSE discover_loop(env, discovered, i + 1,
                                         else_branch(st1, sheet, gid))

\* the value of the call: the exception raised ("" when it returned), the
\* keys and the target frames of the mapping returned, and the fetches of
\* the discovery
LoadResult(raised, keys, out, fetched) ==
    [raised |-> raised, keys |-> keys, out |-> out, fetched |-> fetched]

\* lines 217-322: load_all_data
load_all_data(env) ==
    IF ~env.monthly_ok
    THEN LoadResult("RuntimeError", {}, [t \in Targets |-> EmptyDF], <<>>)
    ELSE IF ~env.yearly_valid
    THEN LoadResult("ValueError", {}, [t \in Targets |-> EmptyDF], <<>>)
    ELSE LET out0  == load_provided(env)
             start == LoopState(out0, needed_targets(out0), {}, <<>>, "")
             final == IF start.needed = {} THEN start
                      ELSE discover_loop(env, discovered_gids(env), 1, start)
         IN  LoadResult(final.raised,
                        IF final.raised = "" THEN {"monthly"} \cup Targets ELSE {},
                        final.out, final.fetched)

---------------------------------------------------------------------------
(* Inputs of load_all_data *)

GidPool == { FallbackGids[i] : i \in 1..Len(FallbackGids) }

FailedSheet == [ok |-> FALSE, columns |-> <<>>, rows |-> <<>>]

Sheet(columns, rows) == [ok |-> TRUE, columns |-> columns, rows |-> rows]

\* worksheets of the yearly spreadsheet: one whose fetch fails, a monthly
\* summary, a status matrix, a status matrix without station rows, a matrix
\* of durations, a matrix whose cells hold a status and a duration, and a
\* sheet of neither kind
WorksheetPool ==
    { FailedSheet,
      Sheet(<< <<"B","u","l","a","n">>, <<"t","e","p","a","t","_","w","a","k","t","u">> >>, << <<StrCell(<<"J","a","n">>), IntCell(3)>> >>),
      Sheet(<< <<"s","t","a","t","i","o","n","_","n","a","m","e">>, <<"J","a","n">> >>,
            << <<StrCell(<<"A">>), StrCell(<<"T","e","p","a","t"," ","W","a","k","t","u">>)>> >>),
      Sheet(<< <<"s","t","a","t","i","o","n","_","n","a","m","e">>, <<"J","a","n">> >>, <<>>),
      Sheet(<< <<"s","t","a","t","i","o","n","_","n","a","m","e">>, <<"J","a","n">> >>,
            << <<StrCell(<<"A">>), NaNCell>>, <<StrCell(<<"B">>), StrCell(<<"2"," ","j","a","m">>)>> >>),
      Sheet(<< <<"s","t","a","t","i","o","n","_","n","a","m","e">>, <<"J","a","n">> >>,
            << <<StrCell(<<"A">>), StrCell(<<"t","e","r","l","a","m","b","a","t"," ","2"," ","j","a","m">>)>> >>),
      Sheet(<< <<"c","a","t","a","t","a","n">> >>, << <<StrCell(<<"x">>)>> >>) }

LoadEnv(monthly_ok, yearly_valid, sheets, delta, status, summary, base, found) ==
    [monthly_ok |-> monthly_ok, yearly_valid |-> yearly_valid, sheets |-> sheets,
     delta_gid |-> delta, status_gid |-> status, monthly_summary_gid |-> summary,
     base_gid |-> base, found |-> found]

\* calls of load_all_data: any worksheet behind each gid, gids given for
\* the targets or not (lines 421-423 leave them to be set as needed), the
\* gid of the yearly URL ('0' when it names none) and the gids the
\* discovery scrapes; one call each with a monthly sheet
\* that cannot be fetched and with a yearly URL that holds no sheet id
LoadEnvs ==
    { LoadEnv(TRUE, TRUE, sheets, delta, status, summary, base, found) :
        sheets \in [GidPool -> WorksheetPool],
        delta \in {NoGid, FallbackGids[2]},
        status \in {NoGid, FallbackGids[1], FallbackGids[3]},
        summary \in {NoGid, FallbackGids[3]},
        base \in {FallbackGids[1], FallbackGids[2]},
        found \in { {}, {FallbackGids[3]}, {FallbackGids[2], FallbackGids[3]} } }
    \cup
    { LoadEnv(ok, ~ok, [g \in GidPool |-> FailedSheet], NoGid, NoGid, NoGid,
              FallbackGids[1], {}) : ok \in BOOLEAN }

---------------------------------------------------------------------------
(* Specification of load_all_data *)

LoadInit ==
    /\ load_env \in LoadEnvs
    /\ load_out = <<>>
    /\ lpc = "called"
    /\ PipelineIdle
    /\ PageIdle /\ MapIdle /\ CacheIdle /\ DisplayIdle /\ PagerIdle

\* line 431: data = load_all_data(...), run to its return or its exception
LoadAllData ==
    /\ lpc = "called"
    /\ load_out' = load_all_data(load_env)
    /\ lpc' = "returned"
    /\ UNCHANGED <<load_env, pipelineVars, pageVars, mapVars, cacheVars,
                   displayVars, pagerVars>>

LoadNext == LoadAllData

LoadSpec == LoadInit /\ [][LoadNext]_vars

---------------------------------------------------------------------------
(* Claims about load_all_data *)

LoadEnded == lpc = "returned"

\* the gid given for target t loaded a frame that is not empty
GivenNonEmpty(t) ==
    LET gid == provided(load_env)[t]
    IN  /\ gid # NoGid
        /\ load_env.sheets[gid].ok
        /\ load_env.sheets[gid].columns # <<>>
        /\ load_env.sheets[gid].rows # <<>>

FetchIds == 1..Len(load_out.fetched)

\* C25: when a gid is given for a target and its table loads non-empty, the
\* table returned for that target is the one of the given gid, whatever the
\* discovery finds; and the discovery fetches a sheet only while a target is
\* still empty, never when all three targets were loaded from given gids.
C25_ExplicitGidKept ==
    (LoadEnded /\ load_out.raised = "") =>
        /\ \A t \in Targets :
              GivenNonEmpty(t) =>
                 load_out.out[t] =
                    LoadedDF(provided(load_env)[t],
                             load_env.sheets[provided(load_env)[t]])
        /\ (\A t \in Targets : GivenNonEmpty(t)) => load_out.fetched = <<>>
        /\ \A f \in FetchIds :
              /\ load_out.fetched[f].needed # {}
              /\ \A t \in load_out.fetched[f].needed : ~GivenNonEmpty(t)

\* the status gid was given and loaded, the discovery ran for the other
\* targets and met another status sheet, and the given one was returned
C25_Witness ==
    /\ LoadEnded /\ load_out.raised = ""
    /\ GivenNonEmpty("status")
    /\ ~GivenNonEmpty("deltahours")
    /\ \E f \in FetchIds :
          LET gid == load_out.fetched[f].gid
          IN  /\ gid # load_env.status_gid
              /\ load_env.sheets[gid].ok
              /\ classify(load_env.sheets[gid]) = "status"
              /\ load_env.sheets[gid].rows # <<>>
              /\ load_env.sheets[gid] # load_env.sheets[load_env.status_gid]
    /\ load_out.out["status"].gid = load_env.status_gid

\* a discovered gid whose fetch failed
FetchFailed(f) == ~load_env.sheets[load_out.fetched[f].gid].ok

\* C28: with a monthly sheet and a yearly sheet id at hand, load_all_data
\* returns the mapping with all four keys instead of raising, also when the
\* fetch of a discovered gid fails; each gid is fetched at most once and
\* only while a target is still needed.
C28_DiscoveryNeverRaises ==
    (LoadEnded /\ load_env.monthly_ok /\ load_env.yearly_valid) =>
        /\ load_out.raised = ""
        /\ load_out.keys = {"monthly", "deltahours", "status", "monthlysummary"}
        /\ \A f, g \in FetchIds :
              f # g => load_out.fetched[f].gid # load_out.fetched[g].gid
        /\ \A f \in FetchIds : load_out.fetched[f].needed # {}

\* what holds of the loop in every call: no gid is fetched twice, no fetch
\* is made when nothing is needed, and a failed fetch is passed over without
\* an exception once deltahours is filled
DiscoveryLoopOrder ==
    LoadEnded =>
        /\ \A f, g \in FetchIds :
              f # g => load_out.fetched[f].gid # load_out.fetched[g].gid
        /\ \A f \in FetchIds : load_out.fetched[f].needed # {}
        /\ load_out.raised = "AttributeError" =>
              /\ FetchFailed(Len(load_out.fetched))
              /\ "deltahours" \in load_out.fetched[Len(load_out.fetched)].needed
        /\ \A f \in FetchIds :
              (FetchFailed(f) /\ "deltahours" \notin load_out.fetched[f].needed)
              => (load_out.raised = "" \/ f < Len(load_out.fetched))

---------------------------------------------------------------------------
(* The st.cache_data caches of load_sheet_csv_url and load_all_data *)

\* lines 132 and 217: @st.cache_data(ttl=300)
TTL == 300

\* no entry
NoEntry == <<>>

\* a cache entry: when it was stored and when the monthly table it holds
\* was fetched from the source
CacheEntry(created, fetched_at) == [created |-> created, fetched_at |-> fetched_at]

\* st.cache_data(ttl=...): an entry is served until ttl seconds after it was
\* stored
entry_valid(entry, now) == entry # NoEntry /\ now - entry.created < TTL

\* what a script run gets: the data and the time its monthly table was
\* fetched, or the exception load_all_data raised
Served(at, fetched_at) == [ok |-> TRUE, at |-> at, fetched_at |-> fetched_at]
Failed(at) == [ok |-> FALSE, at |-> at, fetched_at |-> at]

---------------------------------------------------------------------------
(* Specification of the caches *)

\* seconds between two script runs
Delays == {100}

CacheInit ==
    /\ clock = 0
    /\ url_cache = NoEntry
    /\ data_cache = NoEntry
    /\ served = <<>>
    /\ qpc = "running"
    /\ PipelineIdle
    /\ PageIdle /\ MapIdle /\ LoadIdle /\ DisplayIdle /\ PagerIdle

\* time passes between two script runs
Wait ==
    /\ qpc = "running"
    /\ \E d \in Delays :
          /\ clock + d <= MaxClock
          /\ clock' = clock + d
    /\ UNCHANGED <<url_cache, data_cache, served, qpc, pipelineVars, pageVars,
                   mapVars, loadVars, displayVars, pagerVars>>

\* lines 430-434: a script run calls load_all_data with the arguments of
\* lines 418-423, which never change.  A valid entry of load_all_data is
\* served; otherwise the body runs: line 225 takes the monthly table from a
\* valid entry of load_sheet_csv_url or fetches it (monthly_ok: the fetch
\* succeeds) and stores it, and the rest of the body returns or raises
\* (yearly_ok: no exception after line 225).  Only a value returned is
\* stored.
CallLoadAllData ==
    /\ qpc = "running"
    /\ \E monthly_ok, yearly_ok \in BOOLEAN :
        IF entry_valid(data_cache, clock)
        THEN /\ served' = Served(clock, data_cache.fetched_at)
             /\ UNCHANGED <<url_cache, data_cache>>
        ELSE IF entry_valid(url_cache, clock)
        THEN /\ UNCHANGED url_cache
             /\ IF yearly_ok
                THEN /\ data_cache' = CacheEntry(clock, url_cache.fetched_at)
                     /\ served' = Served(clock, url_cache.fetched_at)
                ELSE /\ served' = Failed(clock)
                     /\ UNCHANGED data_cache
        ELSE IF monthly_ok
        THEN /\ url_cache' = CacheEntry(clock, clock)
             /\ IF yearly_ok
                THEN /\ data_cache' = CacheEntry(clock, clock)
                     /\ served' = Served(clock, clock)
                ELSE /\ served' = Failed(clock)
                     /\ UNCHANGED data_cache
        ELSE /\ served' = Failed(clock)
             /\ UNCHANGED <<url_cache, data_cache>>
    /\ UNCHANGED <<clock, qpc, pipelineVars, pageVars, mapVars, loadVars,
                   displayVars, pagerVars>>

CacheNext == Wait \/ CallLoadAllData

CacheSpec == CacheInit /\ [][CacheNext]_vars

---------------------------------------------------------------------------
(* Claims about the caches *)

DataServed == qpc = "running" /\ served # <<>> /\ served.ok

\* C26: the monthly table load_all_data serves is never older than ttl = 300
\* seconds, counted from its fetch; a run after the window re-fetches.
C26_ServedWithinTtl ==
    DataServed => served.at - served.fetched_at <= TTL

\* what the two nested caches give instead: less than twice the ttl
StalenessBelowTwiceTtl ==
    DataServed => served.at - served.fetched_at < 2 * TTL

---------------------------------------------------------------------------
(* The two yearly views compared *)

\* the station row as the other yearly view computes it from the same cells
OtherViewRow ==
    IF spc = "monitoring"
    THEN df_perf_counts(apply_norm_status_cell(station_cells))
    ELSE df_status_counts(apply_norm_cell(station_cells))

\* C27: the on-time, late, not-sent and total counts of a station are the
\* same in the Monitoring Tahunan view (norm_cell, hitung) and the Performa
\* Stasiun view (norm_status_cell, df_counts), whatever the month cells hold.
C27_ViewsAgree ==
    CellsCounted =>
        /\ StationRow.TEPAT_WAKTU = OtherViewRow.TEPAT_WAKTU
        /\ StationRow.TERLAMBAT = OtherViewRow.TERLAMBAT
        /\ StationRow.TIDAK_MENGIRIM = OtherViewRow.TIDAK_MENGIRIM
        /\ StationRow.TOTAL = OtherViewRow.TOTAL

\* the views agree on the on-time and late counts, and on all four counts
\* of a station whose cells are null or hold a keyword
ViewsAgreeOnKeywords ==
    CellsCounted =>
        /\ StationRow.TEPAT_WAKTU = OtherViewRow.TEPAT_WAKTU
        /\ StationRow.TERLAMBAT = OtherViewRow.TERLAMBAT
        /\ (\A i \in CellIds :
               \/ IsNull(i)
               \/ HasKeyword(i, <<"T","E","P","A","T">>)
               \/ HasKeyword(i, <<"T","E","R","L","A","M","B","A","T">>)
               \/ HasKeyword(i, <<"T","I","D","A","K">>))
           => /\ StationRow.TIDAK_MENGIRIM = OtherViewRow.TIDAK_MENGIRIM
              /\ StationRow.TOTAL = OtherViewRow.TOTAL

---------------------------------------------------------------------------
(* The display table of the monthly page *)

C_month     == "report_month"
C_time_diff == "time_diff_hours"

\* lines 774-777: the key columns df_out and df_src share
KeyColumns == <<C_station, C_wmoid, C_month>>

key_cols(df_src) == { KeyColumns[k] : k \in 1..Len(KeyColumns) } \cap df_src.cols

\* the values of a row in the key columns
key_of(df_src, i) == [c \in key_cols(df_src) |-> df_src.rows[i][c]]

\* line 786: df_src[src_cols].drop_duplicates(), as the positions of the
\* source rows it keeps (the first of every group of equal rows)
src_unique(df_src) ==
    { j \in 1..Len(df_src.rows) :
        \A q \in 1..(j - 1) :
            \/ key_of(df_src, q) # key_of(df_src, j)
            \/ df_src.rows[q].time_diff_hours # df_src.rows[j].time_diff_hours }

\* a row of the display table: the normalized record it shows and its
\* time_diff_hours
DisplayRow(i, diff) == [record |-> i, time_diff_hours |-> diff]

\* the rows a left merge gives for record i, from source position j on
RECURSIVE merge_record(_, _, _, _)
merge_record(df_src, i, j, acc) ==
    IF j > Len(df_src.rows) THEN acc
    ELSE IF Len(acc) < j /\ j \in src_unique(df_src)
            /\ key_of(df_src, j) = key_of(df_src, i)
         THEN merge_record(df_src, i, j + 1,
                           Append(acc, DisplayRow(i, df_src.rows[j].time_diff_hours)))
         ELSE merge_record(df_src, i, j + 1, acc)

\* line 788: df_out.merge(src_unique, on=key_cols, how="left"); record i of
\* df_out has the key of source row i
RECURSIVE merge_left(_, _, _)
merge_left(df_src, i, acc) ==
    IF i > Len(df_src.rows) THEN acc
    ELSE IF Len(acc) >= i - 1
         THEN merge_left(df_src, i + 1, acc \o merge_record(df_src, i, 1, <<>>))
         ELSE acc

DisplayTable(raised, rows) == [raised |-> raised, rows |-> rows]

\* lines 753-811 as called from line 831: df_norm has the rows of the
\* source in their order and no column time_diff_hours (col_order, line 541)
ensure_time_diff_from_source(df_src) ==
    IF key_cols(df_src) # {}
    THEN IF C_time_diff \notin df_src.cols
         THEN DisplayTable("KeyError", <<>>)
         ELSE DisplayTable("", merge_left(df_src, 1, <<>>))
    ELSE DisplayTable("",
            [i \in 1..Len(df_src.rows) |->
                DisplayRow(i, IF C_time_diff \in df_src.cols
                              THEN df_src.rows[i].time_diff_hours
                              ELSE StrCell(<<"-">>))])

\* lines 813-851: neither the dropped columns nor the reordering and
\* renaming of columns change the rows
prepare_display_df_for_table(df_src) ==
    IF df_src.rows = <<>> THEN DisplayTable("", <<>>)
    ELSE ensure_time_diff_from_source(df_src)

---------------------------------------------------------------------------
(* Inputs of the display table *)

DisplayColumnSets == SUBSET {C_station, C_month, C_time_diff}

MonthTexts    == { StrCell(<<"2","0","2","4","-","0","1">>), StrCell(<<"2","0","2","4","-","0","2">>) }
TimeDiffCells == { NaNCell, StrCell(<<"1"," ","j","a","m">>), StrCell(<<"-","2"," ","j","a","m">>) }

DisplaySourceRows(cols) ==
    [station_name : IF C_station \in cols THEN StationNameCells ELSE {AbsentCell},
     report_month : IF C_month \in cols THEN MonthTexts ELSE {AbsentCell},
     time_diff_hours : IF C_time_diff \in cols THEN TimeDiffCells ELSE {AbsentCell}]

---------------------------------------------------------------------------
(* Specification of the display table *)

DisplayInit ==
    /\ display_src \in { [cols |-> c, rows |-> <<>>] : c \in DisplayColumnSets }
    /\ df_display = <<>>
    /\ dpc = "loading"
    /\ PipelineIdle
    /\ PageIdle /\ MapIdle /\ LoadIdle /\ CacheIdle /\ PagerIdle

\* line 139, pd.read_csv: one more row of the monthly sheet
ReadDisplayRow ==
    /\ dpc = "loading"
    /\ Len(display_src.rows) < MaxRows
    /\ \E row \in DisplaySourceRows(display_src.cols) :
          display_src' = [display_src EXCEPT !.rows = Append(@, row)]
    /\ UNCHANGED <<df_display, dpc, pipelineVars, pageVars, mapVars, loadVars,
                   cacheVars, pagerVars>>

\* line 854: df_display = prepare_display_df_for_table(df_monthly_norm,
\* df_monthly)
PrepareDisplay ==
    /\ dpc = "loading"
    /\ df_display' = prepare_display_df_for_table(display_src)
    /\ dpc' = "shown"
    /\ UNCHANGED <<display_src, pipelineVars, pageVars, mapVars, loadVars,
                   cacheVars, pagerVars>>

DisplayNext == ReadDisplayRow \/ PrepareDisplay

DisplaySpec == DisplayInit /\ [][DisplayNext]_vars

---------------------------------------------------------------------------
(* Claims about the display table *)

DisplayShown == dpc = "shown" /\ df_display.raised = ""

\* C29: the display table has exactly one row per normalized record, in
\* their order, also when source rows share a key.
C29_OneRowPerRecord ==
    DisplayShown =>
        /\ Len(df_display.rows) = Len(display_src.rows)
        /\ \A k \in 1..Len(df_display.rows) : df_display.rows[k].record = k

\* what holds instead: every record is shown at least once, in order, and
\* exactly once when no two source rows with its key differ in
\* time_diff_hours
EveryRecordShown ==
    DisplayShown =>
        /\ \A i \in 1..Len(display_src.rows) :
              \E k \in 1..Len(df_display.rows) : df_display.rows[k].record = i
        /\ \A k, l \in 1..Len(df_display.rows) :
              k <= l => df_display.rows[k].record <= df_display.rows[l].record
        /\ (\A i, j \in 1..Len(display_src.rows) :
               key_of(display_src, i) = key_of(display_src, j)
               => display_src.rows[i].time_diff_hours
                     = display_src.rows[j].time_diff_hours)
           => Len(df_display.rows) = Len(display_src.rows)

---------------------------------------------------------------------------
(* Performa Stasiun: sorting, filtering and pagination of the stations *)

\* lines 1314-1320: a row of df_perf with its counts and pct_tepat
perf_row(station, name, tepat, total) ==
    [station     |-> station,
     name        |-> name,
     TEPAT_WAKTU |-> tepat,
     TOTAL       |-> total,
     pct_tepat   |-> fillna(float_div(Float(tepat, 1),
                                      replace_zero_nan(Float(total, 1))))]

\* a < b for two floats that are neither NaN nor inf
float_lt(a, b) == a.num * b.den < b.num * a.den

\* the place of a row in a frame sorted by pct_tepat, descending; rows of
\* equal pct_tepat come in either order (ties_first: ahead of its equals)
insert_at(sorted, row, ties_first) ==
    LET smaller(k) == \/ float_lt(sorted[k].pct_tepat, row.pct_tepat)
                      \/ ties_first /\ sorted[k].pct_tepat = row.pct_tepat
    IN  IF \E k \in 1..Len(sorted) : smaller(k)
        THEN CHOOSE k \in 1..Len(sorted) :
                smaller(k) /\ \A q \in 1..(k - 1) : ~smaller(q)
        ELSE Len(sorted) + 1

\* line 1332: df_perf.sort_values(by='pct_tepat', ascending=False)
\* .reset_index(drop=True), from row i on
RECURSIVE sort_values(_, _, _, _)
sort_values(rows, i, sorted, ties_first) ==
    IF i > Len(rows) \/ Len(sorted) # i - 1 THEN sorted
    ELSE LET at == insert_at(sorted, rows[i], ties_first)
         IN  sort_values(rows, i + 1,
                         SubSeq(sorted, 1, at - 1) \o <<rows[i]>>
                            \o SubSeq(sorted, at, Len(sorted)),
                         ties_first)

\* lines 1342-1344: str.contains(search_text.strip(), case=False)
matches_search(row, search_text) ==
    Strip(search_text) = <<>>
        \/ Contains(Lower(row.name), Lower(Strip(search_text)))

\* lines 1341-1347: the rows left by the search text and the check box
RECURSIVE filter_rows(_, _, _, _, _)
filter_rows(rows, i, kept, search_text, only_with_data) ==
    IF i > Len(rows) \/ Len(kept) >= i THEN kept
    ELSE IF matches_search(rows[i], search_text)
            /\ (only_with_data => rows[i].TOTAL > 0)
         THEN filter_rows(rows, i + 1, Append(kept, rows[i]), search_text,
                          only_with_data)
         ELSE filter_rows(rows, i + 1, kept, search_text, only_with_data)

\* line 1354: options=[6,9,12,15,18,24]
PerPageOptions == {6, 9, 12, 15, 18, 24}

\* math.ceil(a / b) for whole numbers a >= 0, b > 0
ceil_div(a, b) == IF a % b = 0 THEN a \div b ELSE (a \div b) + 1

\* the number of pages with the quotient rounded down
total_pages_floor(total_items, per_page) ==
    IF total_items \div per_page < 1 THEN 1 ELSE total_items \div per_page

\* line 1355: max(1, math.ceil(total_items / per_page))
total_pages_of(total_items, per_page) ==
    IF ceil_div(total_items, per_page) < 1 THEN 1
    ELSE ceil_div(total_items, per_page)

\* df.iloc[a:b] with 0 <= a
iloc(rows, a, b) == SubSeq(rows, a + 1, IF b < Len(rows) THEN b ELSE Len(rows))

NoMatchView == [outcome |-> "no_match"]

\* lines 1357-1359: the slice of page `page`
page_view(df_filtered, per_page, page) ==
    LET total_items == Len(df_filtered)
        start_idx   == (page - 1) * per_page
        end_idx     == IF start_idx + per_page < total_items
                       THEN start_idx + per_page ELSE total_items
    IN  [outcome     |-> "shown",
         df_filtered |-> df_filtered,
         total_items |-> total_items,
         per_page    |-> per_page,
         total_pages |-> total_pages_of(total_items, per_page),
         page        |-> page,
         start_idx   |-> start_idx,
         end_idx     |-> end_idx,
         subset      |-> iloc(df_filtered, start_idx, end_idx)]

---------------------------------------------------------------------------
(* Inputs of the pagination *)

StationNames == << <<"S","t","a","s","i","u","n"," ","A","l","f","a">>, <<"S","t","a","s","i","u","n"," ","B","e","t","a">> >>

SearchTexts == { <<>>, <<" ","a","l","f","a">>, <<"z","z","z">> }

\* the on-time and total counts of the next station: free for the first
\* stations, then in a cycle that repeats values of pct_tepat
NextCounts(i) ==
    IF i <= 2 THEN { <<0, 0>>, <<1, 2>> } ELSE { <<i % 4, 3>> }

---------------------------------------------------------------------------
(* Specification of the pagination *)

PagerInit ==
    /\ df_perf = <<>>
    /\ pager_view = <<>>
    /\ rpc = "loading"
    /\ PipelineIdle
    /\ PageIdle /\ MapIdle /\ LoadIdle /\ CacheIdle /\ DisplayIdle

\* lines 1288-1320: one more station row of df_perf
ReadPerfRow ==
    /\ rpc = "loading"
    /\ Len(df_perf) < MaxItems
    /\ LET i == Len(df_perf) + 1
       IN  \E c \in NextCounts(i) :
              df_perf' = Append(df_perf,
                                perf_row(i, StationNames[(i % 2) + 1], c[1], c[2]))
    /\ UNCHANGED <<pager_view, rpc, pipelineVars, pageVars, mapVars, loadVars,
                   cacheVars, displayVars>>

\* lines 1331-1359: the stations are sorted, filtered by the search text and
\* the check box and cut into pages; the page chosen is shown, or the run
\* stops when no station is left
ShowPage ==
    /\ rpc = "loading"
    /\ df_perf # <<>>
    /\ \E ties_first, only_with_data \in BOOLEAN, search_text \in SearchTexts,
          per_page \in PerPageOptions :
          LET sorted      == sort_values(df_perf, 1, <<>>, ties_first)
              df_filtered == filter_rows(sorted, 1, <<>>, search_text, only_with_data)
          IN  IF df_filtered = <<>>
              THEN pager_view' = NoMatchView
              ELSE \E page \in 1..total_pages_of(Len(df_filtered), per_page) :
                      pager_view' = page_view(df_filtered, per_page, page)
    /\ rpc' = "shown"
    /\ UNCHANGED <<df_perf, pipelineVars, pageVars, mapVars, loadVars,
                   cacheVars, displayVars>>

PagerNext == ReadPerfRow \/ ShowPage

PagerSpec == PagerInit /\ [][PagerNext]_vars

---------------------------------------------------------------------------
(* Claims about the pagination *)

PageShown == rpc = "shown" /\ pager_view.outcome = "shown"

\* positions of the filtered stations, from 0 as iloc counts them
ItemPositions == 0..(pager_view.total_items - 1)

\* the page on which position k belongs when pages hold per_page stations
PageOfPosition(k) == (k \div pager_view.per_page) + 1

\* C30: the pages 1..total_pages, total_pages = ceil(total_items/per_page),
\* partition the filtered stations: the page shown holds the positions
\* start_idx..end_idx-1, which are exactly the positions whose page it is,
\* every position has its page among 1..total_pages, no page is empty, and
\* the stations are in non-increasing order of pct_tepat over all pages.
C30_PagesPartition ==
    PageShown =>
        LET v == pager_view
        IN  /\ v.total_items >= 1 /\ v.total_items = Len(v.df_filtered)
            /\ v.per_page \in {6, 9, 12, 15, 18, 24}
            /\ v.total_pages * v.per_page >= v.total_items
            /\ (v.total_pages - 1) * v.per_page < v.total_items
            /\ v.page \in 1..v.total_pages
            /\ \A k \in ItemPositions :
                  /\ PageOfPosition(k) \in 1..v.total_pages
                  /\ (v.start_idx <= k /\ k < v.end_idx) <=> (PageOfPosition(k) = v.page)
            /\ v.start_idx < v.end_idx /\ v.end_idx <= v.total_items
            /\ Len(v.subset) = v.end_idx - v.start_idx
            /\ \A j \in 1..Len(v.subset) : v.subset[j] = v.df_filtered[v.start_idx + j]
            /\ \A k, l \in 1..v.total_items :
                  k < l => ~float_lt(v.df_filtered[k].pct_tepat,
                                     v.df_filtered[l].pct_tepat)
            /\ \A k, l \in 1..v.total_items :
                  k # l => v.df_filtered[k].station # v.df_filtered[l].station

\* the last of several pages, holding fewer stations than per_page, of a
\* list in which two stations have the same pct_tepat
C30_Witness ==
    /\ PageShown
    /\ pager_view.total_pages >= 2
    /\ pager_view.page = pager_view.total_pages
    /\ pager_view.end_idx - pager_view.start_idx < pager_view.per_page
    /\ pager_view.end_idx = pager_view.total_items
    /\ \E k \in 1..(pager_view.total_items - 1) :
          pager_view.df_filtered[k].pct_tepat = pager_view.df_filtered[k + 1].pct_tepat

=============================================================================
